---- MODULE Spec2Model ----
(***************************************************************************)
(* GARP scoring engine of AI_Stock_Agent: GARPStrategy.analyze and the     *)
(* terminal classification GARPStrategy._determine_overall_status, with    *)
(* the StockHealthCard they build.                                         *)
(*                                                                         *)
(* Numbers are fixed-point integers:                                       *)
(*   debt/equity            as yfinance reports it (percent: 300 = 300%)   *)
(*   current ratio, PEG, Z  in hundredths (1.0 -> 100, 2.99 -> 299)        *)
(*   ROE, gross margin, news confidence in percent (0.15 -> 15)            *)
(* An optional value (Python None / a missing dict key or attribute) is    *)
(* the empty tuple, a present value v is <<v>>.                            *)
(* Tags and reasons are sequences of text fragments; the emoji prefixes of *)
(* the source's tags are left out.                                         *)
(***************************************************************************)
EXTENDS Integers, Sequences, FiniteSets, TLC

VARIABLES
    pc,           \* position inside analyze / _determine_overall_status
    info,         \* ticker.info as read by analyze (optional record)
    market_data,  \* the market_data dict in use (optional record)
    cache,        \* what DatabaseManager.get_latest_stock_data returned (optional)
    market_z,     \* market sentiment z-score computed in _check_valuation
    adv,          \* results of the AdvancedFinancials calculators (optional record)
    card,         \* the StockHealthCard being built (optional record)
    runs,         \* completed runs of _determine_overall_status on this card
    first,        \* status and reason after the first completed run (optional)
    trace,        \* overall_status after each block of the current run
    statements,   \* what AdvancedFinancials reads: statements and ticker.info (optional)
    sentiment_z_score, \* argument of calculate_sentiment_adjusted_dcf
    dcf,          \* result dict of calculate_sentiment_adjusted_dcf (optional)
    altman_price, \* current_price argument of calculate_altman_z_score, in cents
    altman,       \* result dict of calculate_altman_z_score (optional)
    prices,       \* BacktestEngine: the closes of full_history from start_date on
    trading_days, \* BacktestEngine.run: number of those closes up to end_date
    initial_capital, \* BacktestEngine(initial_capital=...)
    day,          \* BacktestEngine.run: index of the trading day being simulated
    capital,      \* BacktestEngine.capital
    holdings,     \* BacktestEngine.holdings
    ledger,       \* BacktestEngine.ledger
    outcome,      \* BacktestEngine.run: what each simulated day's scoring gave
    report,       \* what _generate_report computed (optional)
    spy_regime,   \* _run_regime_bootstrap: SPY against its 200-day average on each
                  \* day of the return history
    is_current_bullish, \* argument of _run_regime_bootstrap
    bootstrap     \* what _run_regime_bootstrap sampled from and returned (optional)

analyzeVars == <<info, market_data, cache, market_z, adv, card, runs, first, trace>>
dcfVars == <<statements, sentiment_z_score, dcf, altman_price, altman>>
engineVars == <<prices, trading_days, initial_capital, day, capital, holdings, ledger,
                outcome, report>>
bootstrapVars == <<spy_regime, is_current_bullish, bootstrap>>

vars == <<pc, info, market_data, cache, market_z, adv, card, runs, first, trace,
          statements, sentiment_z_score, dcf, altman_price, altman,
          prices, trading_days, initial_capital, day, capital, holdings, ledger,
          outcome, report, spy_regime, is_current_bullish, bootstrap>>

----------------------------------------------------------------------------
(* Optional values *)

None == << >>
Some(v) == <<v>>
IsNone(x) == x = << >>
Val(x) == x[1]

Max(a, b) == IF a >= b THEN a ELSE b
Min(a, b) == IF a <= b THEN a ELSE b

(* the parts of the state a specification does not use stay at these values *)
NoAnalysis ==
    /\ info = None
    /\ market_data = None
    /\ cache = None
    /\ market_z = 0
    /\ adv = None
    /\ card = None
    /\ runs = 0
    /\ first = None
    /\ trace = << >>

NoDCF ==
    /\ statements = None
    /\ sentiment_z_score = 0
    /\ dcf = None
    /\ altman_price = 0
    /\ altman = None

NoBacktest ==
    /\ prices = << >>
    /\ trading_days = 0
    /\ initial_capital = 0
    /\ day = 0
    /\ capital = 0
    /\ holdings = 0
    /\ ledger = << >>
    /\ outcome = << >>
    /\ report = None

NoBootstrap ==
    /\ spy_regime = << >>
    /\ is_current_bullish = FALSE
    /\ bootstrap = None

(* f"{x:.2f}" of a value held in hundredths, f"{x:.0%}" of a percentage *)
Fmt2(x) ==
    LET a == IF x < 0 THEN 0 - x ELSE x
        frac == a % 100
    IN  (IF x < 0 THEN "-" ELSE "") \o ToString(a \div 100) \o "."
        \o (IF frac < 10 THEN "0" ELSE "") \o ToString(frac)
FmtPct(p) == ToString(p) \o "%"

----------------------------------------------------------------------------
(* data_models.py *)

OverallStatus == {"PASS", "WATCHLIST", "REJECT"}

(* StockHealthCard(symbol, price, strategy_type): the dataclass defaults.   *)
(* The class declares no overall_reason field, and the valuation and        *)
(* technical blocks start without an is_passing key.  The fields no rule    *)
(* reads (symbol, sector, sparkline, notes, prediction fields) are left out.*)
StockHealthCard(price) ==
    [ price |-> price,
      solvency_check |-> [debt_to_equity |-> None, current_ratio |-> None,
                          is_passing |-> Some(FALSE), tags |-> << >>],
      quality_check |-> [roe |-> None, gross_margin |-> None,
                         is_passing |-> Some(FALSE), tags |-> << >>],
      valuation_check |-> [pe_ratio |-> None, peg_ratio |-> None,
                           fair_value |-> None, is_passing |-> None,
                           dcf |-> None, dcf_error |-> None,
                           tags |-> << >>],
      technical_setup |-> [rsi |-> None, is_passing |-> None, tags |-> << >>],
      overall_status |-> "REJECT",
      overall_reason |-> None,
      red_flags |-> << >>,
      advanced_metrics |-> [piotroski_score |-> None, altman_z_score |-> None,
                            fcf_yield |-> None,
                            news_analysis |-> None, tags |-> << >>] ]

----------------------------------------------------------------------------
(* garp_strategy.py: GARPStrategy.__init__ (no config.yaml: the defaults) *)

thresholds ==
    [ max_debt |-> 200, min_current |-> 100, min_roe |-> 15,
      max_peg |-> 150, max_pe |-> 40,
      min_z_safe |-> 299, min_z_distress |-> 181,
      min_f_high |-> 7, max_f_low |-> 3 ]

----------------------------------------------------------------------------
(* garp_strategy.py: the four factor checks.  Each takes the card and      *)
(* returns the card as the method leaves it.                                *)

AddTag(block, tag) == [block EXCEPT !.tags = Append(@, tag)]

(* _check_solvency that tags a high debt but fails only on low liquidity *)
_check_solvency_DebtNotFailing(c, inf) ==
    LET dte == inf.debtToEquity
        cr  == inf.currentRatio
        b0  == [c.solvency_check EXCEPT !.debt_to_equity = dte,
                                        !.current_ratio = cr]
        b1  == IF ~IsNone(dte)
               THEN IF Val(dte) > thresholds.max_debt
                    THEN AddTag(b0, "High Debt (>" \o ToString(thresholds.max_debt) \o "%)")
                    ELSE AddTag(b0, "Healthy Debt")
               ELSE AddTag(b0, "No Debt Data")
        liq_low == ~IsNone(cr) /\ Val(cr) < thresholds.min_current
        b2  == IF ~IsNone(cr)
               THEN IF liq_low
                    THEN AddTag(b1, "Low Liquidity (<" \o Fmt2(thresholds.min_current) \o ")")
                    ELSE AddTag(b1, "Good Liquidity")
               ELSE AddTag(b1, "No Liquidity Data")
    IN  [c EXCEPT !.solvency_check = [b2 EXCEPT !.is_passing = Some(~liq_low)]]

_check_solvency(c, inf) ==
    LET dte == inf.debtToEquity
        cr  == inf.currentRatio
        b0  == [c.solvency_check EXCEPT !.debt_to_equity = dte,
                                        !.current_ratio = cr]
        debt_high == ~IsNone(dte) /\ Val(dte) > thresholds.max_debt
        b1  == IF ~IsNone(dte)
               THEN IF debt_high
                    THEN AddTag(b0, "High Debt (>" \o ToString(thresholds.max_debt) \o "%)")
                    ELSE AddTag(b0, "Healthy Debt")
               ELSE AddTag(b0, "No Debt Data")
        liq_low == ~IsNone(cr) /\ Val(cr) < thresholds.min_current
        b2  == IF ~IsNone(cr)
               THEN IF liq_low
                    THEN AddTag(b1, "Low Liquidity (<" \o Fmt2(thresholds.min_current) \o ")")
                    ELSE AddTag(b1, "Good Liquidity")
               ELSE AddTag(b1, "No Liquidity Data")
        is_passing == ~debt_high /\ ~liq_low
    IN  [c EXCEPT !.solvency_check = [b2 EXCEPT !.is_passing = Some(is_passing)]]

_check_quality(c, inf) ==
    LET roe == inf.returnOnEquity
        gm  == inf.grossMargins
        b0  == [c.quality_check EXCEPT !.roe = roe, !.gross_margin = gm]
        roe_neg == ~IsNone(roe) /\ ~(Val(roe) > thresholds.min_roe) /\ Val(roe) < 0
        b1  == IF ~IsNone(roe)
               THEN IF Val(roe) > thresholds.min_roe
                    THEN AddTag(b0, "High ROE (>" \o FmtPct(thresholds.min_roe) \o ")")
                    ELSE IF Val(roe) < 0
                         THEN AddTag(b0, "Negative ROE")
                         ELSE AddTag(b0, "Moderate ROE")
               ELSE AddTag(b0, "No ROE Data")
        gm_neg == ~IsNone(gm) /\ ~(Val(gm) > 40) /\ Val(gm) < 0
        b2  == IF ~IsNone(gm)
               THEN IF Val(gm) > 40
                    THEN AddTag(b1, "High Margins")
                    ELSE IF Val(gm) < 0
                         THEN AddTag(b1, "Negative Margins")
                         ELSE b1
               ELSE b1
        is_passing == ~roe_neg /\ ~gm_neg
    IN  [c EXCEPT !.quality_check = [b2 EXCEPT !.is_passing = Some(is_passing)]]

(* _calculate_dynamic_peg: max(0.8, min(2.0, 1.0 + 0.2 * z)), in hundredths. *)
(* The market z-scores of the model are multiples of 0.05, where 0.2 * z is  *)
(* a whole number of hundredths.                                             *)
_calculate_dynamic_peg(market_z_score) ==
    LET base_peg_formula == 100
        adjustment == (20 * market_z_score) \div 100
        dynamic_peg == base_peg_formula + adjustment
    IN  Max(80, Min(200, dynamic_peg))

(* _calculate_sentiment_adjusted_target: target * (1 + 0.05 * clamp(score/100)) *)
(* with prices in cents; exact for the targets and scores of the model.        *)
_calculate_sentiment_adjusted_target(original_target, sentiment_score) ==
    IF IsNone(original_target) THEN None
    ELSE LET normalized == Max(-100, Min(100, sentiment_score))
         IN  Some((Val(original_target) * (2000 + normalized)) \div 2000)

_check_valuation(c, inf, current_price, z_score, dcf_res) ==
    LET pe_ratio  == inf.trailingPE
        peg_ratio == inf.pegRatio
        target_price == inf.targetMeanPrice
        news == c.advanced_metrics.news_analysis
        stock_sentiment_score == IF IsNone(news) THEN 0 ELSE Val(news).sentiment_score
        adjusted_target ==
            _calculate_sentiment_adjusted_target(target_price, stock_sentiment_score)
        b0 == [c.valuation_check EXCEPT !.pe_ratio = pe_ratio,
                                        !.peg_ratio = peg_ratio,
                                        !.fair_value = target_price]
        dynamic_max_peg == _calculate_dynamic_peg(z_score)
        absz == IF z_score < 0 THEN 0 - z_score ELSE z_score
        b1 == IF absz > 50
              THEN AddTag(b0, "Dynamic PEG: " \o Fmt2(dynamic_max_peg) \o " ("
                              \o (IF z_score > 0 THEN "Bullish" ELSE "Bearish")
                              \o " Market, Z=" \o Fmt2(z_score) \o ")")
              ELSE AddTag(b0, "PEG Limit: " \o Fmt2(dynamic_max_peg)
                              \o " (Neutral Market, Z=" \o Fmt2(z_score) \o ")")
        \* Deep value check (adv given): the result or its details are stored,
        \* mos_dcf > 0.15 and mos_dcf < -0.10 add tags
        intrinsic_val == IF IsNone(dcf_res) THEN None ELSE Val(dcf_res).intrinsic_value
        b2 == IF IsNone(dcf_res) THEN b1
              ELSE IF ~IsNone(intrinsic_val) /\ Val(intrinsic_val) > 0
              THEN LET d == [b1 EXCEPT !.dcf = dcf_res]
                   IN  IF 100 * (Val(intrinsic_val) - current_price) > 15 * current_price
                       THEN AddTag(d, "Deep Value Buy")
                       ELSE IF 100 * (Val(intrinsic_val) - current_price)
                                   < 0 - 10 * current_price
                            THEN AddTag(d, "DCF Overvalued")
                            ELSE d
              ELSE [b1 EXCEPT !.dcf_error = Some(Val(dcf_res).details)]
        peg_fail == ~IsNone(peg_ratio) /\ ~(Val(peg_ratio) < 100)
                    /\ ~(Val(peg_ratio) < dynamic_max_peg)
        pe_fail == IsNone(peg_ratio) /\ ~IsNone(pe_ratio)
                   /\ Val(pe_ratio) > thresholds.max_pe
        b3 == IF ~IsNone(peg_ratio)
              THEN IF Val(peg_ratio) < 100
                   THEN AddTag(b2, "Undervalued (PEG < 1)")
                   ELSE IF Val(peg_ratio) < dynamic_max_peg
                        THEN AddTag(b2, "Reasonable Price (PEG < " \o Fmt2(dynamic_max_peg) \o ")")
                        ELSE AddTag(b2, "Overvalued (PEG > " \o Fmt2(dynamic_max_peg) \o ")")
              ELSE IF pe_fail
                   THEN AddTag(b2, "High PE (>" \o ToString(thresholds.max_pe) \o ")")
                   ELSE AddTag(b2, "No Valuation Data")
        hasTarget == ~IsNone(adjusted_target) /\ current_price > 0
        diff == Val(adjusted_target) - current_price
        b4 == IF hasTarget
              THEN LET t1 == IF stock_sentiment_score > 20 \/ stock_sentiment_score < -20
                             THEN AddTag(b3, "Sentiment Adj")
                             ELSE b3
                   IN  IF 10 * diff > 3 * current_price
                       THEN AddTag(t1, "High Upside")
                       ELSE IF diff < 0
                            THEN AddTag(t1, "Over Analyst Target")
                            ELSE t1
              ELSE AddTag(b3, "No Analyst Targets")
        is_passing == ~peg_fail /\ ~pe_fail
    IN  [c EXCEPT !.valuation_check = [b4 EXCEPT !.is_passing = Some(is_passing)]]

(* _check_technical reads the top-level 'rsi' key of market_data *)
_check_technical(c, md) ==
    LET rsi == md.rsi
        b0  == [c.technical_setup EXCEPT !.rsi = rsi]
        overbought == ~IsNone(rsi) /\ Val(rsi) > 70
        b1  == IF ~IsNone(rsi)
               THEN IF overbought
                    THEN AddTag(b0, "Overbought (RSI " \o ToString(Val(rsi)) \o ")")
                    ELSE IF Val(rsi) < 30
                         THEN AddTag(b0, "Oversold (RSI " \o ToString(Val(rsi)) \o ")")
                         ELSE AddTag(b0, "Neutral Technicals")
               ELSE AddTag(b0, "No Technical Data")
    IN  [c EXCEPT !.technical_setup = [b1 EXCEPT !.is_passing = Some(~overbought)]]

----------------------------------------------------------------------------
(* garp_strategy.py: _determine_overall_status, one operator per block of   *)
(* the method, in the order the method runs them.                           *)

SetVerdict(c, status, reason) ==
    [c EXCEPT !.overall_status = status, !.overall_reason = Some(<<reason>>)]

(* "Downtrend" in card.overall_reason, over the fragments a reason is made of *)
ContainsDowntrend(reason) ==
    \E i \in 1..Len(reason) :
        reason[i] = "Downgraded: Long-Term Downtrend (Below SMA200)"

(* BaseLogic that forgets the technical check *)
BaseLogic_IgnoresTechnical(c) ==
    LET passed_solvency  == Val(c.solvency_check.is_passing)
        passed_quality   == Val(c.quality_check.is_passing)
        passed_valuation == Val(c.valuation_check.is_passing)
    IN  IF passed_solvency /\ passed_quality /\ passed_valuation
        THEN SetVerdict(c, "PASS", "All Systems Go (GARP Approved)")
        ELSE IF passed_solvency /\ passed_quality /\ ~passed_valuation
             THEN SetVerdict(c, "WATCHLIST", "Great Company, Expensive Price")
             ELSE SetVerdict(c, "REJECT", "Fundamental Red Flags")

(* BaseLogic that keeps the reason a previous run left on an overvalued card *)
BaseLogic_KeepsReason(c) ==
    LET passed_solvency  == Val(c.solvency_check.is_passing)
        passed_quality   == Val(c.quality_check.is_passing)
        passed_valuation == Val(c.valuation_check.is_passing)
        passed_technical == Val(c.technical_setup.is_passing)
    IN  IF passed_solvency /\ passed_quality /\ passed_valuation
        THEN IF ~passed_technical
             THEN SetVerdict(c, "WATCHLIST", "Fundamentals Great, but Technicals Overheated")
             ELSE SetVerdict(c, "PASS", "All Systems Go (GARP Approved)")
        ELSE IF passed_solvency /\ passed_quality /\ ~passed_valuation
             THEN IF IsNone(c.overall_reason)
                  THEN SetVerdict(c, "WATCHLIST", "Great Company, Expensive Price")
                  ELSE [c EXCEPT !.overall_status = "WATCHLIST"]
             ELSE SetVerdict(c, "REJECT", "Fundamental Red Flags")

BaseLogic(c) ==
    LET passed_solvency  == Val(c.solvency_check.is_passing)
        passed_quality   == Val(c.quality_check.is_passing)
        passed_valuation == Val(c.valuation_check.is_passing)
        passed_technical == Val(c.technical_setup.is_passing)
    IN  IF passed_solvency /\ passed_quality /\ passed_valuation
        THEN IF ~passed_technical
             THEN SetVerdict(c, "WATCHLIST", "Fundamentals Great, but Technicals Overheated")
             ELSE SetVerdict(c, "PASS", "All Systems Go (GARP Approved)")
        ELSE IF passed_solvency /\ passed_quality /\ ~passed_valuation
             THEN SetVerdict(c, "WATCHLIST", "Great Company, Expensive Price")
             ELSE SetVerdict(c, "REJECT", "Fundamental Red Flags")

BankruptcyVeto(c) ==
    LET z_score == c.advanced_metrics.altman_z_score
    IN  IF ~IsNone(z_score) /\ Val(z_score) < thresholds.min_z_distress - 1
        THEN SetVerdict(c, "REJECT",
                 "Rejected: High Bankruptcy Risk (Z-Score " \o Fmt2(Val(z_score)) \o ")")
        ELSE c

(* the veto with F-Score < max_f_low in place of <= *)
WeakFinancialsVeto_StrictlyBelow(c) ==
    LET f_score == c.advanced_metrics.piotroski_score
    IN  IF ~IsNone(f_score) /\ Val(f_score) < thresholds.max_f_low
           /\ c.overall_status = "PASS"
        THEN SetVerdict(c, "WATCHLIST",
                 "Downgraded: Financials Deteriorating (F-Score "
                 \o ToString(Val(f_score)) \o ")")
        ELSE c

WeakFinancialsVeto(c) ==
    LET f_score == c.advanced_metrics.piotroski_score
    IN  IF ~IsNone(f_score) /\ Val(f_score) <= thresholds.max_f_low
           /\ c.overall_status = "PASS"
        THEN SetVerdict(c, "WATCHLIST",
                 "Downgraded: Financials Deteriorating (F-Score "
                 \o ToString(Val(f_score)) \o ")")
        ELSE c

(* QualityRescue that looks at the F-Score alone *)
QualityRescue_NoZCheck(c) ==
    LET f_score == c.advanced_metrics.piotroski_score
    IN  IF c.overall_status = "REJECT"
           /\ ~IsNone(f_score) /\ Val(f_score) >= thresholds.min_f_high
        THEN SetVerdict(c, "WATCHLIST",
                 "Saved by Quality: High F-Score (" \o ToString(Val(f_score))
                 \o ") & Safe Z-Score")
        ELSE c

(* QualityRescue that promotes all the way to PASS *)
QualityRescue_ToPass(c) ==
    LET z_score == c.advanced_metrics.altman_z_score
        f_score == c.advanced_metrics.piotroski_score
    IN  IF c.overall_status = "REJECT"
           /\ ~IsNone(f_score) /\ Val(f_score) >= thresholds.min_f_high
           /\ ~IsNone(z_score) /\ Val(z_score) > thresholds.min_z_safe
        THEN SetVerdict(c, "PASS",
                 "Saved by Quality: High F-Score (" \o ToString(Val(f_score))
                 \o ") & Safe Z-Score")
        ELSE c

QualityRescue(c) ==
    LET z_score == c.advanced_metrics.altman_z_score
        f_score == c.advanced_metrics.piotroski_score
    IN  IF c.overall_status = "REJECT"
           /\ ~IsNone(f_score) /\ Val(f_score) >= thresholds.min_f_high
           /\ ~IsNone(z_score) /\ Val(z_score) > thresholds.min_z_safe
        THEN SetVerdict(c, "WATCHLIST",
                 "Saved by Quality: High F-Score (" \o ToString(Val(f_score))
                 \o ") & Safe Z-Score")
        ELSE c

(* market_data.get('trend', {}).get('is_above_ma200', True) *)
IsAboveMa200(md) ==
    IF IsNone(md.trend) THEN TRUE
    ELSE IF IsNone(Val(md.trend).is_above_ma200) THEN TRUE
         ELSE Val(Val(md.trend).is_above_ma200)

(* TrendFilter that moves every card below the average to WATCHLIST *)
TrendFilter_AnyStatus(c, md) ==
    IF ~IsAboveMa200(md)
    THEN SetVerdict([c EXCEPT !.technical_setup =
                                  AddTag(@, "Below SMA200 (Downtrend)")],
                    "WATCHLIST", "Downgraded: Long-Term Downtrend (Below SMA200)")
    ELSE c

TrendFilter(c, md) ==
    IF ~IsAboveMa200(md)
    THEN LET c1 == [c EXCEPT !.technical_setup =
                                 AddTag(@, "Below SMA200 (Downtrend)")]
         IN  IF c1.overall_status = "PASS"
             THEN SetVerdict(c1, "WATCHLIST",
                      "Downgraded: Long-Term Downtrend (Below SMA200)")
             ELSE IF c1.overall_status = "WATCHLIST"
                     /\ ~ContainsDowntrend(Val(c1.overall_reason))
                  THEN [c1 EXCEPT !.overall_reason =
                                      Some(Append(Val(@), " & Below SMA200"))]
                  ELSE c1
    ELSE c

NewsVeto(c) ==
    LET news_analysis == c.advanced_metrics.news_analysis
    IN  IF ~IsNone(news_analysis)
           /\ Val(news_analysis).sentiment = "Negative"
           /\ Val(news_analysis).confidence > 70
           /\ c.overall_status = "PASS"
        THEN SetVerdict(c, "WATCHLIST",
                 "Downgraded: Negative News Sentiment (Conf: "
                 \o FmtPct(Val(news_analysis).confidence) \o ")")
        ELSE c

_determine_overall_status(c, md) ==
    NewsVeto(TrendFilter(QualityRescue(WeakFinancialsVeto(BankruptcyVeto(BaseLogic(c)))), md))

_create_empty_card ==
    [StockHealthCard(0) EXCEPT !.red_flags = Append(@, "Data Fetch Failed")]

----------------------------------------------------------------------------
(* AdvancedFinancials.calculate_sentiment_adjusted_dcf (advanced_metrics.py) *)
(*                                                                          *)
(* Rates are integers in units of 0.001% (0.09 -> 9000), money is in whole  *)
(* currency units and a per-share value in hundredths; every division       *)
(* truncates.  sentiment z-scores are in hundredths.                        *)

RateScale == 100000

base_rate == 9000
terminal_growth == 3000
growth_cap == 15000
growth_floor == 2000
default_growth == 5000

(* math.tanh on the positive z-scores used here, in units of 0.00001 (it is *)
(* only called for z > 0)                                                   *)
Tanh(z) ==
    CASE z = 50  -> 46212
      [] z = 100 -> 76159
      [] z = 300 -> 99505
      [] z = 500 -> 99990
      [] z = 600 -> 99998
      [] OTHER   -> 0

(* f"{x:.1%}" of a rate *)
FmtPct1(r) ==
    LET tenths == (r + 50) \div 100
    IN  ToString(tenths \div 10) \o "." \o ToString(tenths % 10) \o "%"

RECURSIVE ISqrtBetween(_, _, _)
ISqrtBetween(n, lo, hi) ==
    IF lo >= hi THEN lo
    ELSE LET mid == (lo + hi + 1) \div 2
         IN  IF mid * mid <= n THEN ISqrtBetween(n, mid, hi)
             ELSE ISqrtBetween(n, lo, mid - 1)

(* math.sqrt, truncated *)
ISqrt(n) == ISqrtBetween(n, 0, Min(n, 46340))

(* lines 325-333: revenueGrowth (default 5%), capped at 15%, floored at 2% *)
GrowthRate(st) ==
    LET growth_input == IF IsNone(st.revenueGrowth) THEN default_growth
                        ELSE Val(st.revenueGrowth)
    IN  Max(Min(growth_input, growth_cap), growth_floor)

(* lines 337-342 *)
SentimentPenalty(z) == IF z > 0 THEN (2 * Tanh(z)) \div 100 ELSE 0

DiscountRate_LowBaseNoFloor(z) == 900 + SentimentPenalty(z)

(* lines 336-344 and the safety floor of lines 382-385 *)
DiscountRate(z) ==
    LET r == base_rate + SentimentPenalty(z)
    IN  IF r <= terminal_growth THEN terminal_growth + 1000 ELSE r

DCFFailed(details) ==
    [intrinsic_value |-> None, details |-> details, discount_rate |-> None,
     growth_rate |-> None, sentiment_penalty |-> None]

GrahamFallback_KeepsRates(st, shares, rates) ==
    IF ~IsNone(st.equity) /\ st.net_income > 0 /\ Val(st.equity) > 0
    THEN [intrinsic_value |->
              Some((ISqrt((225 * st.net_income * Val(st.equity)) \div 10) * 100)
                   \div shares),
          details |-> "Graham Number (Negative FCF Fallback)",
          discount_rate |-> Some(rates.discount_rate),
          growth_rate |-> Some(rates.growth_rate),
          sentiment_penalty |-> Some(rates.sentiment_penalty)]
    ELSE DCFFailed("Negative FCF & Graham Failed")

(* lines 352-374: negative FCF.  A missing equity row (st.equity = None)    *)
(* raises inside the inner try, which is logged and falls through.          *)
GrahamFallback(st, shares, rates) ==
    IF ~IsNone(st.equity) /\ st.net_income > 0 /\ Val(st.equity) > 0
    THEN [intrinsic_value |->
              Some((ISqrt((225 * st.net_income * Val(st.equity)) \div 10) * 100)
                   \div shares),
          details |-> "Graham Number (Negative FCF Fallback)",
          discount_rate |-> Some(0),
          growth_rate |-> Some(0),
          sentiment_penalty |-> Some(0)]
    ELSE DCFFailed("Negative FCF & Graham Failed")

RECURSIVE Grow(_, _, _)
Grow(cash, g, years) ==
    IF years = 0 THEN cash
    ELSE Grow((cash * (RateScale + g)) \div RateScale, g, years - 1)

RECURSIVE Discount(_, _, _)
Discount(cash, r, years) ==
    IF years = 0 THEN cash
    ELSE Discount((cash * RateScale) \div (RateScale + r), r, years - 1)

RECURSIVE PresentValue(_, _, _, _)
PresentValue(fcf, g, r, i) ==
    IF i = 0 THEN 0
    ELSE PresentValue(fcf, g, r, i - 1) + Discount(Grow(fcf, g, i), r, i)

(* lines 376-406: five projected years plus the terminal value, per share *)
Projection(fcf, shares, g, r, penalty) ==
    LET terminal_val == (Grow(fcf, g, 5) * (RateScale + terminal_growth))
                            \div (r - terminal_growth)
        total_equity_value == PresentValue(fcf, g, r, 5) + Discount(terminal_val, r, 5)
    IN  [intrinsic_value |-> Some((total_equity_value * 100) \div shares),
         details |-> "DCF (g=" \o FmtPct1(g) \o ", r=" \o FmtPct1(r) \o ")",
         discount_rate |-> Some(r),
         growth_rate |-> Some(g),
         sentiment_penalty |-> Some(penalty)]

calculate_sentiment_adjusted_dcf(st, z) ==
    IF ~st.has_data THEN DCFFailed("No Data")
    ELSE IF IsNone(st.fcf) THEN DCFFailed("Cannot calc FCF")
    ELSE IF IsNone(st.sharesOutstanding) \/ Val(st.sharesOutstanding) = 0
         THEN DCFFailed("No Share Count")
    ELSE LET fcf == Val(st.fcf)
             shares == Val(st.sharesOutstanding)
             rates == [discount_rate |-> base_rate + SentimentPenalty(z),
                       growth_rate |-> GrowthRate(st),
                       sentiment_penalty |-> SentimentPenalty(z)]
         IN  IF fcf < 0 THEN GrahamFallback(st, shares, rates)
             ELSE Projection(fcf, shares, GrowthRate(st), DiscountRate(z),
                             SentimentPenalty(z))

----------------------------------------------------------------------------
(* Inputs *)

MaxRuns == 2   \* runs of _determine_overall_status on one card

DebtToEquityValues == {None, Some(50), Some(300)}
CurrentRatioValues == {None, Some(50), Some(200)}
ROEValues          == {None, Some(-5), Some(20)}
GrossMarginValues  == {None, Some(-10), Some(50)}
PEGValues          == {None, Some(100), Some(200)}
PEValues           == {None, Some(50)}
TargetValues       == {Some(12000)}

Infos ==
    [ debtToEquity : DebtToEquityValues, currentRatio : CurrentRatioValues,
      returnOnEquity : ROEValues, grossMargins : GrossMarginValues,
      trailingPE : PEValues, pegRatio : PEGValues,
      targetMeanPrice : TargetValues ]

Trends == {None} \cup {Some([is_above_ma200 |-> a]) : a \in {None, Some(TRUE), Some(FALSE)}}

(* market_data as analyze receives it: price in cents, the top-level 'rsi' *)
(* key and the 'trend' block                                               *)
MarketDatas ==
    [ price : {10000}, rsi : {None, Some(50), Some(80)},
      trend : {Some([is_above_ma200 |-> Some(a)]) : a \in BOOLEAN} ]

NewsAnalyses ==
    { [sentiment |-> "Negative", confidence |-> 90, sentiment_score |-> -80],
      [sentiment |-> "Negative", confidence |-> 70, sentiment_score |-> -30],
      [sentiment |-> "Positive", confidence |-> 80, sentiment_score |-> 60] }

(* what NewsAgent.analyze_news returns when it returns an analysis *)
AnalyzeNewsResults ==
    { [sentiment |-> "Negative", confidence |-> 90, sentiment_score |-> -80] }

(* AdvancedFinancials(ticker): nothing when the constructor raises, or the  *)
(* object holding the company's statements                                  *)
AnalyzeStatements ==
    { [has_data |-> TRUE, fcf |-> Some(500), sharesOutstanding |-> Some(100),
       revenueGrowth |-> None, sector |-> "Technology",
       net_income |-> 1000, equity |-> Some(2000)] }

AdvancedFinancialsResults == {None} \cup {Some(st) : st \in AnalyzeStatements}

PiotroskiResults == {None, Some(3), Some(8)}
AltmanResults == {None, Some(150), Some(180), Some(350)}
FcfYieldResults == {None, Some(0), Some(5200)}
FcfYieldInAnalyze == {Some(5200)}

FScores == {None} \cup {Some(f) : f \in {0, 3, 4, 6, 7, 9}}
ZScores == {None} \cup {Some(z) : z \in {150, 179, 180, 181, 299, 300, 350}}
MarketZScores == {-200, 0}

----------------------------------------------------------------------------
(* _determine_overall_status called on a card whose check results were set  *)
(* by the caller (as verify_phase8.test_strategy_logic does), one action    *)
(* per block of the method.                                                *)

ClassifyCard(ps, pq, pv, pt, f, z, n) ==
    LET c == StockHealthCard(10000)
    IN  [c EXCEPT !.solvency_check.is_passing = Some(ps),
                  !.quality_check.is_passing = Some(pq),
                  !.valuation_check.is_passing = Some(pv),
                  !.technical_setup.is_passing = Some(pt),
                  !.advanced_metrics.piotroski_score = f,
                  !.advanced_metrics.altman_z_score = z,
                  !.advanced_metrics.news_analysis = n]

InitClassify ==
    /\ pc = "base"
    /\ NoDCF
    /\ NoBacktest
    /\ NoBootstrap
    /\ info = None
    /\ cache = None
    /\ market_z = 0
    /\ adv = None
    /\ runs = 0
    /\ first = None
    /\ trace = << >>
    /\ \E t \in Trends :
           market_data = Some([price |-> 10000, rsi |-> None, trend |-> t])
    /\ \E ps \in BOOLEAN, pq \in BOOLEAN, pv \in BOOLEAN, pt \in BOOLEAN,
          f \in FScores, z \in ZScores,
          n \in {None} \cup {Some(a) : a \in NewsAnalyses} :
           card = Some(ClassifyCard(ps, pq, pv, pt, f, z, n))

Block(from, to, c) ==
    /\ pc = from
    /\ pc' = to
    /\ card' = Some(c)
    /\ trace' = Append(trace, c.overall_status)
    /\ UNCHANGED <<info, market_data, cache, market_z, adv>>
    /\ UNCHANGED <<dcfVars, engineVars, bootstrapVars>>

StepBaseLogic ==
    /\ Block("base", "bankruptcy_veto", BaseLogic(Val(card)))
    /\ UNCHANGED <<runs, first>>

StepBankruptcyVeto ==
    /\ Block("bankruptcy_veto", "weak_financials_veto", BankruptcyVeto(Val(card)))
    /\ UNCHANGED <<runs, first>>

StepWeakFinancialsVeto ==
    /\ Block("weak_financials_veto", "quality_rescue", WeakFinancialsVeto(Val(card)))
    /\ UNCHANGED <<runs, first>>

StepQualityRescue ==
    /\ Block("quality_rescue", "trend_filter", QualityRescue(Val(card)))
    /\ UNCHANGED <<runs, first>>

StepTrendFilter ==
    /\ Block("trend_filter", "news_veto", TrendFilter(Val(card), Val(market_data)))
    /\ UNCHANGED <<runs, first>>

StepNewsVeto ==
    /\ Block("news_veto", "classified", NewsVeto(Val(card)))
    /\ runs' = runs + 1
    /\ first' = IF runs = 0
                THEN Some([overall_status |-> card'[1].overall_status,
                           overall_reason |-> card'[1].overall_reason])
                ELSE first

(* the caller runs the classification again on the same card and market data *)
Rerun ==
    /\ pc = "classified"
    /\ runs < MaxRuns
    /\ pc' = "base"
    /\ trace' = << >>
    /\ UNCHANGED <<info, market_data, cache, market_z, adv, card, runs, first>>
    /\ UNCHANGED <<dcfVars, engineVars, bootstrapVars>>

NextClassify ==
    \/ StepBaseLogic
    \/ StepBankruptcyVeto
    \/ StepWeakFinancialsVeto
    \/ StepQualityRescue
    \/ StepTrendFilter
    \/ StepNewsVeto
    \/ Rerun

SpecClassify == InitClassify /\ [][NextClassify]_vars

----------------------------------------------------------------------------
(* GARPStrategy.analyze, one action per numbered stage of the method *)

(* DatabaseManager.get_latest_stock_data: the latest snapshot document of   *)
(* the symbol, or nothing.  A document carries a date and may carry the     *)
(* serialized card under raw_data; documents written before a field existed *)
(* lack it.                                                                 *)
SnapshotDocs ==
    [ date : {"2025-12-07"},
      raw_data : {None} \cup
                 {Some([overall_status |-> st]) :
                      st \in {None} \cup {Some(x) : x \in OverallStatus}} ]

get_latest_stock_data == {None} \cup {Some(d) : d \in SnapshotDocs}

(* analyze, lines 70-87: the card rebuilt from a cached snapshot.  The      *)
(* status is assigned after construction, so __post_init__ does not see it. *)
CachedCard(cached) ==
    LET raw == Val(cached.raw_data)
        c   == StockHealthCard(0)
    IN  [c EXCEPT !.overall_status =
                      IF IsNone(raw.overall_status) THEN "UNKNOWN"
                      ELSE Val(raw.overall_status),
                  !.overall_reason =
                      Some(<<"Cached Data (Last Updated: " \o cached.date \o ")">>),
                  !.advanced_metrics.tags =
                      Append(@, "Offline Mode (Cached: " \o cached.date \o ")")]

(* calculate_altman_z_score: the classification of a score *)
AltmanStatus(z) ==
    IF z > 300 THEN "Safe"
    ELSE IF z > 180 THEN "Grey Zone"
    ELSE "Distress"

RecordAdvancedMetrics_StopsAtNull(c, f, z, y) ==
    LET am0 == [c.advanced_metrics EXCEPT !.piotroski_score = f]
        am1 == IF IsNone(f) THEN am0
               ELSE AddTag([am0 EXCEPT !.altman_z_score = z],
                           "F-Score (" \o ToString(Val(f)) \o ")")
        am2 == IF IsNone(f) \/ IsNone(z) THEN am1
               ELSE AddTag([am1 EXCEPT !.fcf_yield = y],
                           "Z-Score (" \o Fmt2(Val(z)) \o ")")
    IN  [c EXCEPT !.advanced_metrics = am2]

(* analyze, lines 146-175: the F-Score, the Z-Score and the FCF yield are   *)
(* recorded on the card, each with its tag when it is not null.  The three  *)
(* calculators catch their own errors and return a null score, so a null    *)
(* from one does not keep the next from being called.                       *)
RecordAdvancedMetrics(c, f, z, y) ==
    LET am0 == [c.advanced_metrics EXCEPT !.piotroski_score = f]
        am1 == IF IsNone(f) THEN am0
               ELSE IF Val(f) >= thresholds.min_f_high
                    THEN AddTag(am0, "High F-Score (" \o ToString(Val(f)) \o ")")
                    ELSE IF Val(f) <= thresholds.max_f_low
                         THEN AddTag(am0, "Low F-Score (" \o ToString(Val(f)) \o ")")
                         ELSE AddTag(am0, "Average F-Score (" \o ToString(Val(f)) \o ")")
        am2 == [am1 EXCEPT !.altman_z_score = z]
        status == AltmanStatus(Val(z))
        am3 == IF IsNone(z) THEN am2
               ELSE IF status = "Safe"
                    THEN AddTag(am2, "Z-Score Safe (" \o Fmt2(Val(z)) \o ")")
                    ELSE IF status = "Distress"
                         THEN AddTag(am2, "Z-Score Distress (" \o Fmt2(Val(z)) \o ")")
                         ELSE AddTag(am2, "Z-Score Grey (" \o Fmt2(Val(z)) \o ")")
        flags == IF ~IsNone(z) /\ status = "Distress"
                 THEN Append(c.red_flags, "Bankruptcy Risk (Z-Score " \o Fmt2(Val(z)) \o ")")
                 ELSE c.red_flags
        am4 == [am3 EXCEPT !.fcf_yield = y]
        am5 == IF IsNone(y) THEN am4
               ELSE AddTag(am4, "FCF Yield: " \o FmtPct1(Val(y)))
    IN  [c EXCEPT !.advanced_metrics = am5, !.red_flags = flags]

Init ==
    /\ pc = "start"
    /\ NoDCF
    /\ NoBacktest
    /\ NoBootstrap
    /\ info = None
    /\ market_data = None
    /\ cache = None
    /\ market_z = 0
    /\ adv = None
    /\ card = None
    /\ runs = 0
    /\ first = None
    /\ trace = << >>

(* ticker.info or fetch_and_analyze raises: analyze returns the empty card *)
FetchFailed ==
    /\ pc = "start"
    /\ card' = Some(_create_empty_card)
    /\ pc' = "returned"
    /\ UNCHANGED <<info, market_data, cache, market_z, adv, runs, first, trace>>
    /\ UNCHANGED <<dcfVars, engineVars, bootstrapVars>>

(* no market data: DatabaseManager() ends the process when it cannot        *)
(* connect (SystemExit is not caught by "except Exception"), otherwise the  *)
(* cached snapshot is looked up                                             *)
FetchNoMarketData ==
    /\ pc = "start"
    /\ \/ /\ pc' = "exited"
          /\ UNCHANGED <<cache, card>>
       \/ \E cached \in get_latest_stock_data :
             /\ cache' = cached
             /\ pc' = "returned"
             /\ card' = IF ~IsNone(cached) /\ ~IsNone(Val(cached).raw_data)
                        THEN Some(CachedCard(Val(cached)))
                        ELSE Some(_create_empty_card)
    /\ UNCHANGED <<info, market_data, market_z, adv, runs, first, trace>>
    /\ UNCHANGED <<dcfVars, engineVars, bootstrapVars>>

FetchOk ==
    /\ pc = "start"
    /\ \E inf \in Infos, md \in MarketDatas :
          /\ info' = Some(inf)
          /\ market_data' = Some(md)
          /\ card' = Some(StockHealthCard(md.price))
    /\ pc' = "solvency"
    /\ UNCHANGED <<cache, market_z, adv, runs, first, trace>>
    /\ UNCHANGED <<dcfVars, engineVars, bootstrapVars>>

CheckSolvency ==
    /\ pc = "solvency"
    /\ card' = Some(_check_solvency(Val(card), Val(info)))
    /\ pc' = "quality"
    /\ UNCHANGED <<info, market_data, cache, market_z, adv, runs, first, trace>>
    /\ UNCHANGED <<dcfVars, engineVars, bootstrapVars>>

CheckQuality ==
    /\ pc = "quality"
    /\ card' = Some(_check_quality(Val(card), Val(info)))
    /\ pc' = "news"
    /\ UNCHANGED <<info, market_data, cache, market_z, adv, runs, first, trace>>
    /\ UNCHANGED <<dcfVars, engineVars, bootstrapVars>>

(* stage 4: the news agent is disabled, fails or returns nothing, or its    *)
(* analysis is stored on the card                                           *)
NewsSentiment ==
    /\ pc = "news"
    /\ \/ UNCHANGED card
       \/ \E a \in AnalyzeNewsResults :
             card' = Some([Val(card) EXCEPT
                 !.advanced_metrics.news_analysis = Some(a),
                 !.advanced_metrics.tags =
                     IF a.sentiment \in {"Positive", "Negative"}
                     THEN Append(@, "News: " \o a.sentiment \o " ("
                                    \o FmtPct(a.confidence) \o ")")
                     ELSE @])
    /\ pc' = "valuation"
    /\ UNCHANGED <<info, market_data, cache, market_z, adv, runs, first, trace>>
    /\ UNCHANGED <<dcfVars, engineVars, bootstrapVars>>

(* stage 5: AdvancedFinancials(ticker) is built (or fails), the market      *)
(* z-score is computed and the valuation check runs, calling the DCF of the *)
(* object with that z-score.  adv holds the object's statements and, once   *)
(* stage 5.5 has run, what its three calculators returned.                  *)
CheckValuationFrom(AdvSet, ZSet) ==
    /\ pc = "valuation"
    /\ \E a \in AdvSet, z \in ZSet :
          /\ adv' = IF IsNone(a) THEN None
                    ELSE Some([statements |-> Val(a), computed |-> None])
          /\ market_z' = z
          /\ card' = Some(_check_valuation(Val(card), Val(info),
                              Val(market_data).price, z,
                              IF IsNone(a) THEN None
                              ELSE Some(calculate_sentiment_adjusted_dcf(Val(a), z))))
    /\ pc' = "technical"
    /\ UNCHANGED <<info, market_data, cache, runs, first, trace>>
    /\ UNCHANGED <<dcfVars, engineVars, bootstrapVars>>

CheckValuation == CheckValuationFrom(AdvancedFinancialsResults, MarketZScores)

CheckTechnical ==
    /\ pc = "technical"
    /\ card' = Some(_check_technical(Val(card), Val(market_data)))
    /\ pc' = "advanced"
    /\ UNCHANGED <<info, market_data, cache, market_z, adv, runs, first, trace>>
    /\ UNCHANGED <<dcfVars, engineVars, bootstrapVars>>

(* stage 5.5: the F-Score, the Z-Score and the FCF yield are computed and   *)
(* recorded; without statements (has_data false) each calculator returns a *)
(* null score.  The risk range of stage 5.6 only adds advanced_metrics tags *)
(* and the monte_carlo fields.                                              *)
AdvancedMetricsFrom(Fs, Zs, Ys) ==
    /\ pc = "advanced"
    /\ IF IsNone(adv)
       THEN UNCHANGED <<card, adv>>
       ELSE LET has_data == Val(adv).statements.has_data
            IN  \E f \in (IF has_data THEN Fs ELSE {None}),
                   z \in (IF has_data THEN Zs ELSE {None}),
                   y \in (IF has_data THEN Ys ELSE {None}) :
                    /\ card' = Some(RecordAdvancedMetrics(Val(card), f, z, y))
                    /\ adv' = Some([Val(adv) EXCEPT !.computed =
                                  Some([piotroski_score |-> f, altman_z_score |-> z,
                                        fcf_yield |-> y])])
    /\ pc' = "classify"
    /\ UNCHANGED <<info, market_data, cache, market_z, runs, first, trace>>
    /\ UNCHANGED <<dcfVars, engineVars, bootstrapVars>>

AdvancedMetrics == AdvancedMetricsFrom(PiotroskiResults, AltmanResults, FcfYieldInAnalyze)

(* stage 6 and the return *)
DetermineOverallStatus ==
    /\ pc = "classify"
    /\ LET c0 == Val(card)
           md == Val(market_data)
           c1 == BaseLogic(c0)
           c2 == BankruptcyVeto(c1)
           c3 == WeakFinancialsVeto(c2)
           c4 == QualityRescue(c3)
           c5 == TrendFilter(c4, md)
       IN  /\ card' = Some(_determine_overall_status(c0, md))
           /\ trace' = <<c1.overall_status, c2.overall_status, c3.overall_status,
                         c4.overall_status, c5.overall_status,
                         card'[1].overall_status>>
    /\ runs' = runs + 1
    /\ pc' = "returned"
    /\ UNCHANGED <<info, market_data, cache, market_z, adv, first>>
    /\ UNCHANGED <<dcfVars, engineVars, bootstrapVars>>

Next ==
    \/ FetchFailed
    \/ FetchNoMarketData
    \/ FetchOk
    \/ CheckSolvency
    \/ CheckQuality
    \/ NewsSentiment
    \/ CheckValuation
    \/ CheckTechnical
    \/ AdvancedMetrics
    \/ DetermineOverallStatus

Spec == Init /\ [][Next]_vars

----------------------------------------------------------------------------
(* Properties of the terminal classification (SpecClassify) *)

Rank(status) == CASE status = "PASS" -> 2
                  [] status = "WATCHLIST" -> 1
                  [] OTHER -> 0

AfterBankruptcyVeto ==
    pc \in {"weak_financials_veto", "quality_rescue", "trend_filter",
            "news_veto", "classified"}

CardZ == Val(card).advanced_metrics.altman_z_score
CardF == Val(card).advanced_metrics.piotroski_score
CardNews == Val(card).advanced_metrics.news_analysis

(* C1: a card whose Altman Z-Score is present and below 1.8 is REJECT from  *)
(* the bankruptcy veto on, through every later override, whatever the four *)
(* check results, the F-Score, the trend flag and the news analysis are.    *)
C1_BankruptcyVetoDominates ==
    (AfterBankruptcyVeto /\ ~IsNone(CardZ) /\ Val(CardZ) < 180)
        => Val(card).overall_status = "REJECT"

(* an all-passing card with a high F-Score and Z below 1.8, classified *)
C1_Witness ==
    /\ pc = "classified"
    /\ ~IsNone(CardZ) /\ Val(CardZ) < 180
    /\ ~IsNone(CardF) /\ Val(CardF) >= 7
    /\ trace[1] = "PASS"
    /\ Val(card).overall_status = "REJECT"

NoOverrideInput ==
    /\ IsNone(CardZ)
    /\ IsNone(CardF)
    /\ IsNone(CardNews)
    /\ IsAboveMa200(Val(market_data))

BaseRule(ps, pq, pv, pt) ==
    IF ps /\ pq /\ pv THEN (IF pt THEN "PASS" ELSE "WATCHLIST")
    ELSE IF ps /\ pq THEN "WATCHLIST"
    ELSE "REJECT"

(* C2: with no Z-Score, no F-Score, no news analysis and the price not      *)
(* below the 200-day average, the classification ends with the base rule's  *)
(* status.                                                                 *)
C2_BaseRuleWithoutOverrides ==
    (pc = "classified" /\ NoOverrideInput)
        => Val(card).overall_status =
               BaseRule(Val(Val(card).solvency_check.is_passing),
                        Val(Val(card).quality_check.is_passing),
                        Val(Val(card).valuation_check.is_passing),
                        Val(Val(card).technical_setup.is_passing))

(* fundamentals pass, technical check fails, no override input: WATCHLIST *)
C2_Witness ==
    /\ pc = "classified"
    /\ NoOverrideInput
    /\ Val(Val(card).solvency_check.is_passing)
    /\ Val(Val(card).quality_check.is_passing)
    /\ Val(Val(card).valuation_check.is_passing)
    /\ ~Val(Val(card).technical_setup.is_passing)
    /\ Val(card).overall_status = "WATCHLIST"

(* C4: the quality rescue changes the status only from REJECT to WATCHLIST, *)
(* and a card that is REJECT when the rescue block starts is not PASS after *)
(* the rescue nor after any later block.                                    *)
C4_RescueNeverProducesPass ==
    Len(trace) >= 4 =>
        /\ trace[4] # trace[3] => (trace[3] = "REJECT" /\ trace[4] = "WATCHLIST")
        /\ trace[3] = "REJECT" => \A i \in 4..Len(trace) : trace[i] # "PASS"

(* a rescued card at the end of the classification *)
C4_Witness ==
    /\ pc = "classified"
    /\ trace[3] = "REJECT"
    /\ trace[4] = "WATCHLIST"
    /\ Val(card).overall_status = "WATCHLIST"

(* C5: the bankruptcy veto, the weak-financials veto, the trend filter and  *)
(* the news veto (entries 2, 3, 5, 6 of a run) never raise the status;      *)
(* only the quality rescue (entry 4) can.                                   *)
C5_OverridesOnlyLower ==
    \A i \in 2..Len(trace) :
        i # 4 => Rank(trace[i]) <= Rank(trace[i-1])

(* a run in which the bankruptcy veto lowered PASS and one in which the     *)
(* rescue raised REJECT both exist; this is the rescue one, taken with the  *)
(* trend filter firing after it                                             *)
C5_Witness ==
    /\ pc = "classified"
    /\ Rank(trace[4]) > Rank(trace[3])
    /\ ~IsAboveMa200(Val(market_data))
    /\ Rank(trace[6]) <= Rank(trace[4])

(* C9: a second (and any later) run on the same card with the same market   *)
(* data ends with the status and the reason of the first run.               *)
C9_ClassificationIdempotent ==
    (pc = "classified" /\ runs >= 2)
        => /\ Val(card).overall_status = Val(first).overall_status
           /\ Val(card).overall_reason = Val(first).overall_reason

(* a second run on a WATCHLIST card below the average, whose reason got the *)
(* " & Below SMA200" suffix in both runs                                    *)
C9_Witness ==
    /\ pc = "classified"
    /\ runs = 2
    /\ Val(card).overall_status = "WATCHLIST"
    /\ Len(Val(Val(card).overall_reason)) = 2
    /\ Val(Val(card).overall_reason)[2] = " & Below SMA200"

----------------------------------------------------------------------------
(* Properties of analyze (Spec) *)

Returned == pc = "returned"
Analyzed == pc = "returned" /\ ~IsNone(info)

(* C3: every card analyze returns has a status among PASS, WATCHLIST and    *)
(* REJECT, on the normal path, on a fetch failure and on the cached path.   *)
C3_ReturnedStatusValid ==
    Returned => Val(card).overall_status \in OverallStatus

HighDebt ==
    /\ ~IsNone(Val(info).debtToEquity)
    /\ Val(Val(info).debtToEquity) > 200

(* C6 as stated: debt-to-equity above the maximum always ends in REJECT *)
C6_HighDebtAlwaysReject ==
    (Analyzed /\ HighDebt) => Val(card).overall_status = "REJECT"

(* C6 amended: debt-to-equity above the maximum fails the solvency check    *)
(* and the returned status is never PASS; it is REJECT unless the quality   *)
(* rescue fired (F-Score at least 7 and Z-Score above 2.99), and then it is *)
(* WATCHLIST.                                                               *)
C6_HighDebtNeverPass ==
    (Analyzed /\ HighDebt) =>
        /\ Val(card).solvency_check.is_passing = Some(FALSE)
        /\ \/ Val(card).overall_status = "REJECT"
           \/ /\ Val(card).overall_status = "WATCHLIST"
              /\ ~IsNone(CardF) /\ Val(CardF) >= 7
              /\ ~IsNone(CardZ) /\ Val(CardZ) > 299

(* high debt with everything else passing, rejected *)
C6_Witness ==
    /\ Analyzed /\ HighDebt
    /\ Val(card).quality_check.is_passing = Some(TRUE)
    /\ Val(card).valuation_check.is_passing = Some(TRUE)
    /\ Val(card).technical_setup.is_passing = Some(TRUE)
    /\ Val(card).solvency_check.current_ratio = Some(200)
    /\ Val(card).overall_status = "REJECT"

HighDebtTag == "High Debt (>" \o ToString(thresholds.max_debt) \o "%)"

(* C7: the negative rules write to red_flags as well as to the tags: when   *)
(* debt-to-equity is above the threshold, the card analyze returns has the  *)
(* High Debt entry in red_flags.                                            *)
C7_HighDebtInRedFlags ==
    (Analyzed /\ HighDebt) =>
        LET flags == Val(card).red_flags
        IN  \E j \in 1..Len(flags) : flags[j] = HighDebtTag

PerfectStock ==
    /\ Val(info).debtToEquity = Some(50)
    /\ Val(info).currentRatio = Some(200)
    /\ Val(info).returnOnEquity = Some(20)
    /\ Val(info).grossMargins = Some(50)
    /\ Val(info).pegRatio = Some(100)
    /\ Val(market_data).rsi \in {None, Some(50)}
    /\ market_z = 0
    /\ IsAboveMa200(Val(market_data))
    /\ IsNone(CardZ) /\ IsNone(CardF) /\ IsNone(CardNews)

(* C8: the perfect stock (D/E 50, current ratio 2.0, ROE 20%, gross margin  *)
(* 50%, PEG 1.0, neutral RSI, market z-score 0, no override input) is PASS  *)
(* with solvency, quality and valuation passing and no red flag.            *)
C8_PerfectStockPasses ==
    (Analyzed /\ PerfectStock) =>
        /\ Val(card).overall_status = "PASS"
        /\ Val(card).solvency_check.is_passing = Some(TRUE)
        /\ Val(card).quality_check.is_passing = Some(TRUE)
        /\ Val(card).valuation_check.is_passing = Some(TRUE)
        /\ Val(card).red_flags = << >>

(* C10: every card analyze returns has an overall_reason to read (and a     *)
(* red_flags list).                                                         *)
C10_ReturnedCardHasReason ==
    Returned => ~IsNone(Val(card).overall_reason)

----------------------------------------------------------------------------
(* Inputs and specification of the sentiment-adjusted DCF called directly *)

(* The statements and ticker.info fields the method reads, and the sector   *)
(* of the company.  fcf = None: neither a Free Cash Flow nor an operating   *)
(* cash flow row; sharesOutstanding = None or 0: no share count in info or  *)
(* on the balance sheet; equity = None: no Stockholders Equity and no Total *)
(* Assets row.  has_data is false when any of the three statements is empty.*)
Statements ==
    [ has_data : BOOLEAN,
      fcf : {None, Some(-500), Some(0), Some(150)},
      sharesOutstanding : {None, Some(0), Some(100)},
      revenueGrowth : {None, Some(1000), Some(10000), Some(40000)},
      sector : {"Technology", "Utilities"},
      net_income : {-100, 1000},
      equity : {None, Some(-100), Some(2000)} ]

SentimentZScores == {-100, 0, 50, 100, 300}

InitDCF ==
    /\ pc = "dcf_call"
    /\ NoAnalysis
    /\ NoBacktest
    /\ NoBootstrap
    /\ statements \in {Some(st) : st \in Statements}
    /\ sentiment_z_score \in SentimentZScores
    /\ dcf = None
    /\ altman_price = 0
    /\ altman = None

CalculateDCF ==
    /\ pc = "dcf_call"
    /\ dcf' = Some(calculate_sentiment_adjusted_dcf(Val(statements), sentiment_z_score))
    /\ pc' = "dcf_done"
    /\ UNCHANGED <<statements, sentiment_z_score, altman_price, altman>>
    /\ UNCHANGED <<analyzeVars, engineVars, bootstrapVars>>

NextDCF == CalculateDCF

SpecDCF == InitDCF /\ [][NextDCF]_vars

----------------------------------------------------------------------------
(* Properties of the sentiment-adjusted DCF (SpecDCF) *)

DCFDone == pc = "dcf_done"
Stmts == Val(statements)
DCFResult == Val(dcf)
IsGraham == DCFResult.details = "Graham Number (Negative FCF Fallback)"

(* C11 as stated: whenever the intrinsic value returned is non-null, the    *)
(* reported discount_rate is at least the terminal growth rate (3%) plus    *)
(* one percentage point.                                                    *)
C11_DiscountRateAboveTerminal ==
    (DCFDone /\ ~IsNone(DCFResult.intrinsic_value))
        => /\ ~IsNone(DCFResult.discount_rate)
           /\ Val(DCFResult.discount_rate) >= terminal_growth + 1000

(* C11 amended: whenever the intrinsic value comes from the cash-flow       *)
(* projection (non-null and not the Graham Number fallback), the reported   *)
(* discount_rate is at least the terminal growth rate plus one point.       *)
C11_ProjectionDiscountRateAboveTerminal ==
    (DCFDone /\ ~IsNone(DCFResult.intrinsic_value) /\ ~IsGraham)
        => /\ ~IsNone(DCFResult.discount_rate)
           /\ Val(DCFResult.discount_rate) >= terminal_growth + 1000

C11_Witness ==
    /\ DCFDone
    /\ ~IsNone(DCFResult.intrinsic_value)
    /\ ~IsGraham
    /\ sentiment_z_score > 0
    /\ Val(DCFResult.discount_rate) > base_rate

NegativeFCF == ~IsNone(Stmts.fcf) /\ Val(Stmts.fcf) < 0
ShareCountAvailable ==
    ~IsNone(Stmts.sharesOutstanding) /\ Val(Stmts.sharesOutstanding) # 0
PositiveEarningsAndEquity ==
    Stmts.net_income > 0 /\ ~IsNone(Stmts.equity) /\ Val(Stmts.equity) > 0

NegativeFCFOutcome ==
    IF PositiveEarningsAndEquity
    THEN /\ ~IsNone(DCFResult.intrinsic_value)
         /\ IsGraham
         /\ DCFResult.discount_rate = Some(0)
         /\ DCFResult.growth_rate = Some(0)
         /\ DCFResult.sentiment_penalty = Some(0)
    ELSE /\ IsNone(DCFResult.intrinsic_value)
         /\ DCFResult.details = "Negative FCF & Graham Failed"

C13_SectorGrowthCeiling ==
    (DCFDone /\ ~IsNone(DCFResult.intrinsic_value) /\ ~IsGraham)
        => LET growth_input == IF IsNone(Stmts.revenueGrowth) THEN default_growth
                               ELSE Val(Stmts.revenueGrowth)
               ceiling == IF Stmts.sector = "Technology" THEN 30000 ELSE 15000
           IN  DCFResult.growth_rate = Some(Max(Min(growth_input, ceiling), growth_floor))

----------------------------------------------------------------------------
(* GARPStrategy._check_valuation called directly on a fresh card, as        *)
(* tests/test_logic_phase16_5.py does: the info dict carries the valuation  *)
(* fields, among them forwardPE.                                            *)

ValuationInfos ==
    [ trailingPE : {None, Some(20), Some(50)},
      forwardPE : {None, Some(20), Some(50)},
      pegRatio : {None} \cup {Some(p) : p \in {70, 80, 90, 100, 150, 200, 250}},
      targetMeanPrice : {None, Some(12000)} ]

ValuationZScores == {-200, -100, -50, 0, 100, 500, 600}

InitValuation ==
    /\ pc = "valuation_call"
    /\ info \in {Some(inf) : inf \in ValuationInfos}
    /\ market_data = None
    /\ cache = None
    /\ market_z = 0
    /\ adv = None
    /\ card = Some(StockHealthCard(10000))
    /\ runs = 0
    /\ first = None
    /\ trace = << >>
    /\ NoDCF
    /\ NoBacktest
    /\ NoBootstrap

CallCheckValuation ==
    /\ pc = "valuation_call"
    /\ \E a \in AdvancedFinancialsResults, z \in ValuationZScores :
          /\ adv' = IF IsNone(a) THEN None
                    ELSE Some([statements |-> Val(a), computed |-> None])
          /\ market_z' = z
          /\ card' = Some(_check_valuation(Val(card), Val(info), Val(card).price, z,
                              IF IsNone(a) THEN None
                              ELSE Some(calculate_sentiment_adjusted_dcf(Val(a), z))))
    /\ pc' = "valuation_done"
    /\ UNCHANGED <<info, market_data, cache, runs, first, trace>>
    /\ UNCHANGED <<dcfVars, engineVars, bootstrapVars>>

NextValuation == CallCheckValuation

SpecValuation == InitValuation /\ [][NextValuation]_vars

----------------------------------------------------------------------------
(* Properties of the valuation check (SpecValuation) *)

ValuationDone == pc = "valuation_done"
ValuationPasses == Val(card).valuation_check.is_passing = Some(TRUE)
HasValuationTag(tag) ==
    \E i \in 1..Len(Val(card).valuation_check.tags) :
        Val(card).valuation_check.tags[i] = tag

(* C14: with PEG unavailable, a trailing P/E above the maximum and a        *)
(* forward P/E at or below it, the valuation check does not fail and a      *)
(* reasonable-forward-P/E tag is recorded.                                  *)
C14_ForwardPERescuesHighTrailingPE ==
    (/\ ValuationDone
     /\ IsNone(Val(info).pegRatio)
     /\ ~IsNone(Val(info).trailingPE)
     /\ Val(Val(info).trailingPE) > thresholds.max_pe
     /\ ~IsNone(Val(info).forwardPE)
     /\ Val(Val(info).forwardPE) <= thresholds.max_pe)
        => /\ ValuationPasses
           /\ HasValuationTag("Reasonable Forward PE")

(* C20: with PEG available, the valuation check passes exactly when PEG is  *)
(* strictly below the ceiling clamp(1.0 + 0.2 * z, 0.8, 2.0); in particular *)
(* a PEG at or above a bearish ceiling below 1.0 fails.                     *)
C20_PEGPassesIffBelowCeiling ==
    (ValuationDone /\ ~IsNone(Val(info).pegRatio))
        => LET ceiling == Max(80, Min(200, 100 + (20 * market_z) \div 100))
           IN  ValuationPasses <=> Val(Val(info).pegRatio) < ceiling

----------------------------------------------------------------------------
(* analyze from stage 5 on, for a few companies whose solvency and quality  *)
(* checks have run, over the statements the AdvancedFinancials object may   *)
(* hold and every combination of results of its calculators.                *)

MetricsInfos ==
    { inf \in Infos :
        /\ inf.debtToEquity = Some(50)
        /\ inf.currentRatio = Some(200)
        /\ inf.grossMargins = Some(50)
        /\ inf.returnOnEquity \in {Some(-5), Some(20)}
        /\ inf.trailingPE = None }

MetricsMarketDatas == { md \in MarketDatas : md.rsi = Some(50) }

MetricsStatements ==
    { st \in Statements :
        /\ st.revenueGrowth = None
        /\ st.sector = "Technology"
        /\ st.net_income = 1000
        /\ st.equity = Some(2000) }

InitMetrics ==
    /\ pc = "valuation"
    /\ \E inf \in MetricsInfos, md \in MetricsMarketDatas :
          /\ info = Some(inf)
          /\ market_data = Some(md)
          /\ card = Some(_check_quality(_check_solvency(StockHealthCard(md.price), inf), inf))
    /\ cache = None
    /\ market_z = 0
    /\ adv = None
    /\ runs = 0
    /\ first = None
    /\ trace = << >>
    /\ NoDCF
    /\ NoBacktest
    /\ NoBootstrap

CheckValuationMetrics ==
    CheckValuationFrom({None} \cup {Some(st) : st \in MetricsStatements}, MarketZScores)

AdvancedMetricsAll ==
    AdvancedMetricsFrom(PiotroskiResults, AltmanResults, FcfYieldResults)

NextMetrics ==
    \/ CheckValuationMetrics
    \/ CheckTechnical
    \/ AdvancedMetricsAll
    \/ DetermineOverallStatus

SpecMetrics == InitMetrics /\ [][NextMetrics]_vars

----------------------------------------------------------------------------
(* Properties of the advanced metrics inside analyze (SpecMetrics) *)

MetricsStageDone == pc \in {"classify", "returned"} /\ ~IsNone(adv)
Computed == Val(Val(adv).computed)
DcfOfAdv == calculate_sentiment_adjusted_dcf(Val(adv).statements, market_z)

(* C18: whatever each of the Piotroski score, the Altman score, the FCF     *)
(* yield and the DCF returns (a value or null), the other three are still   *)
(* computed and recorded on the card, the four factor checks have their     *)
(* results and the classification completes with a status and a reason.     *)
C18_MetricsFailIndependently ==
    /\ MetricsStageDone =>
          /\ ~IsNone(Val(adv).computed)
          /\ Val(card).advanced_metrics.piotroski_score = Computed.piotroski_score
          /\ Val(card).advanced_metrics.altman_z_score = Computed.altman_z_score
          /\ Val(card).advanced_metrics.fcf_yield = Computed.fcf_yield
          /\ IF ~IsNone(DcfOfAdv.intrinsic_value) /\ Val(DcfOfAdv.intrinsic_value) > 0
             THEN Val(card).valuation_check.dcf = Some(DcfOfAdv)
             ELSE Val(card).valuation_check.dcf_error = Some(DcfOfAdv.details)
          /\ ~IsNone(Val(card).solvency_check.is_passing)
          /\ ~IsNone(Val(card).quality_check.is_passing)
          /\ ~IsNone(Val(card).valuation_check.is_passing)
          /\ ~IsNone(Val(card).technical_setup.is_passing)
    /\ pc = "advanced" => ENABLED AdvancedMetricsAll
    /\ pc = "classify" => ENABLED DetermineOverallStatus
    /\ (pc = "returned" /\ ~IsNone(adv)) =>
          /\ Val(card).overall_status \in OverallStatus
          /\ ~IsNone(Val(card).overall_reason)

C18_Witness ==
    /\ pc = "returned"
    /\ ~IsNone(adv)
    /\ IsNone(Computed.piotroski_score)
    /\ ~IsNone(Computed.altman_z_score)
    /\ ~IsNone(Val(card).advanced_metrics.altman_z_score)
    /\ ~IsNone(Val(card).advanced_metrics.fcf_yield)
    /\ IsNone(DcfOfAdv.intrinsic_value)
    /\ ~IsNone(Val(card).valuation_check.dcf_error)

----------------------------------------------------------------------------
(* The non-PASS guarantees of the classification (SpecClassify) *)

LowFScore == ~IsNone(CardF) /\ Val(CardF) <= 3
MarkedBelowMa200 ==
    /\ ~IsNone(Val(market_data).trend)
    /\ Val(Val(market_data).trend).is_above_ma200 = Some(FALSE)
ConfidentNegativeNews ==
    /\ ~IsNone(CardNews)
    /\ Val(CardNews).sentiment = "Negative"
    /\ Val(CardNews).confidence > 70

(* C19: the final status is never PASS when the Piotroski score is non-null *)
(* and at most 3, or the market data marks the price below its 200-day      *)
(* average, or the news is Negative with confidence above 0.7; a card that  *)
(* is PASS after the base rule and the bankruptcy veto then ends WATCHLIST, *)
(* not REJECT.                                                              *)
C19_VetoedCardNeverPasses ==
    (pc = "classified" /\ (LowFScore \/ MarkedBelowMa200 \/ ConfidentNegativeNews))
        => /\ Val(card).overall_status # "PASS"
           /\ trace[2] = "PASS" => Val(card).overall_status = "WATCHLIST"

C19_Witness ==
    /\ pc = "classified"
    /\ trace[2] = "PASS"
    /\ CardF = Some(3)
    /\ ~MarkedBelowMa200
    /\ ~ConfidentNegativeNews
    /\ Val(card).overall_status = "WATCHLIST"

----------------------------------------------------------------------------
(* BacktestEngine (backtest_engine.py).  Closing prices are whole currency  *)
(* units; cash, execution prices and trade values are in thousandths, so    *)
(* that price * 1.001 and price * 0.999 are exact.                          *)

MaxDays == 3   \* closes in full_history from start_date on

PriceScale == 1000
initial_val == 10000 * PriceScale

ClosingPrices == {10, 20}
InitialCapitals == {10 * 1001, 25 * PriceScale, 31 * PriceScale}

(* market_data.fetch_and_analyze: the returned dict carries the RSI under   *)
(* 'momentum' and the 200-day comparison under trend.is_above_ma200; it has *)
(* no top-level 'rsi' key.  Prices in cents.                                *)
fetch_and_analyze(close, ma200, current_rsi) ==
    [ price |-> close,
      rsi |-> None,
      trend |-> Some([is_above_ma200 |-> Some(close > ma200), is_uptrend |-> None]),
      momentum |-> Some([rsi |-> current_rsi]) ]

(* BacktestEngine._calculate_market_data: the RSI is under 'momentum' too,  *)
(* and the 200-day comparison is stored as trend.is_uptrend; the dict has   *)
(* neither a top-level 'rsi' nor a trend.is_above_ma200 key.                *)
_calculate_market_data(latest_price, ma200, rsi) ==
    [ price |-> latest_price,
      rsi |-> None,
      trend |-> Some([is_above_ma200 |-> None, is_uptrend |-> Some(latest_price > ma200)]),
      momentum |-> Some([rsi |-> rsi]) ]

BacktestMa200Values == {500, 3000}   \* cents
BacktestRsi == 80

(* cards analyze returns after scoring on the market data md: solvency and  *)
(* valuation pass or fail, the technical check runs on md                   *)
ScoredCardsOn(md) ==
    { _determine_overall_status(
          _check_technical(ClassifyCard(ps, TRUE, pv, TRUE, None, None, None), md), md) :
          ps \in BOOLEAN, pv \in BOOLEAN }

(* cards analyze returns when market_data is empty (fewer than 50 rows):    *)
(* the card rebuilt from the cached snapshot, or the empty card             *)
NoMarketDataCards ==
    {_create_empty_card} \cup
    { CachedCard(d) : d \in {x \in SnapshotDocs : ~IsNone(x.raw_data)} }

(* _execute_trade that records a SELL on REJECT whatever the holdings are *)
_execute_trade_SellsWithoutPosition(eng, date, price, signal, c) ==
    LET execution_price == IF signal = "PASS" THEN price * 1001 ELSE price * 999
    IN  IF signal = "PASS"
        THEN IF eng.capital > execution_price
             THEN LET shares_to_buy == eng.capital \div execution_price
                      cost == shares_to_buy * execution_price
                  IN  IF shares_to_buy > 0
                      THEN IF IsNone(c.overall_reason)
                           THEN [eng EXCEPT !.capital = @ - cost,
                                            !.holdings = @ + shares_to_buy,
                                            !.raised = TRUE]
                           ELSE [eng EXCEPT !.capital = @ - cost,
                                            !.holdings = @ + shares_to_buy,
                                            !.ledger = Append(@,
                                                [Date |-> date, Action |-> "BUY",
                                                 Price |-> execution_price,
                                                 Shares |-> shares_to_buy,
                                                 Value |-> cost,
                                                 Reason |-> Val(c.overall_reason)])]
                      ELSE eng
             ELSE eng
        ELSE IF signal = "REJECT"
        THEN IF eng.holdings >= 0
             THEN LET proceeds == eng.holdings * execution_price
                  IN  IF IsNone(c.overall_reason)
                      THEN [eng EXCEPT !.capital = @ + proceeds, !.raised = TRUE]
                      ELSE [eng EXCEPT !.capital = @ + proceeds,
                                       !.ledger = Append(@,
                                           [Date |-> date, Action |-> "SELL",
                                            Price |-> execution_price,
                                            Shares |-> eng.holdings,
                                            Value |-> proceeds,
                                            Reason |-> Val(c.overall_reason)]),
                                       !.holdings = 0]
             ELSE eng
        ELSE eng

(* _execute_trade on the engine fields eng.  The ledger entry is built      *)
(* after capital (and, for a buy, holdings) were updated; reading           *)
(* card.overall_reason raises AttributeError on a card that has none, which *)
(* leaves the entry unwritten and, for a sell, holdings as they were.       *)
_execute_trade(eng, date, price, signal, c) ==
    LET execution_price == IF signal = "PASS" THEN price * 1001 ELSE price * 999
    IN  IF signal = "PASS"
        THEN IF eng.capital > execution_price
             THEN LET shares_to_buy == eng.capital \div execution_price
                      cost == shares_to_buy * execution_price
                  IN  IF shares_to_buy > 0
                      THEN IF IsNone(c.overall_reason)
                           THEN [eng EXCEPT !.capital = @ - cost,
                                            !.holdings = @ + shares_to_buy,
                                            !.raised = TRUE]
                           ELSE [eng EXCEPT !.capital = @ - cost,
                                            !.holdings = @ + shares_to_buy,
                                            !.ledger = Append(@,
                                                [Date |-> date, Action |-> "BUY",
                                                 Price |-> execution_price,
                                                 Shares |-> shares_to_buy,
                                                 Value |-> cost,
                                                 Reason |-> Val(c.overall_reason)])]
                      ELSE eng
             ELSE eng
        ELSE IF signal = "REJECT"
        THEN IF eng.holdings > 0
             THEN LET proceeds == eng.holdings * execution_price
                  IN  IF IsNone(c.overall_reason)
                      THEN [eng EXCEPT !.capital = @ + proceeds, !.raised = TRUE]
                      ELSE [eng EXCEPT !.capital = @ + proceeds,
                                       !.ledger = Append(@,
                                           [Date |-> date, Action |-> "SELL",
                                            Price |-> execution_price,
                                            Shares |-> eng.holdings,
                                            Value |-> proceeds,
                                            Reason |-> Val(c.overall_reason)]),
                                       !.holdings = 0]
             ELSE eng
        ELSE eng

(* BacktestEngine(ticker, start, end, initial_capital) with its price       *)
(* history fetched                                                          *)
InitBacktest ==
    /\ pc = "day_loop"
    /\ NoAnalysis
    /\ NoDCF
    /\ NoBootstrap
    /\ prices \in [1..MaxDays -> ClosingPrices]
    /\ trading_days \in 1..MaxDays
    /\ initial_capital \in InitialCapitals
    /\ capital = initial_capital
    /\ holdings = 0
    /\ ledger = << >>
    /\ day = 0
    /\ outcome = << >>
    /\ report = None

InLoop == pc = "day_loop" /\ day < trading_days

(* the days so far on which analyze got past a DatabaseManager() call *)
DatabaseInitialized ==
    \E i \in 1..Len(outcome) : outcome[i].kind \in {"no_market_data", "scored"}

(* run, lines 101-111: _calculate_market_data or analyze raises an          *)
(* Exception; it is logged and the loop continues with the next day         *)
AnalysisRaises ==
    /\ InLoop
    /\ day' = day + 1
    /\ outcome' = Append(outcome, [kind |-> "raised", signal |-> None])
    /\ UNCHANGED <<pc, prices, trading_days, initial_capital, capital, holdings,
                   ledger, report>>
    /\ UNCHANGED <<analyzeVars, dcfVars, bootstrapVars>>

(* the first DatabaseManager() of the process, called by analyze, raises    *)
(* SystemExit (no MONGODB_URI, or no connection); "except Exception"        *)
(* catches it neither in analyze nor in run                                 *)
AnalysisExits ==
    /\ InLoop
    /\ ~DatabaseInitialized
    /\ day' = day + 1
    /\ outcome' = Append(outcome, [kind |-> "exited", signal |-> None])
    /\ pc' = "exited"
    /\ UNCHANGED <<prices, trading_days, initial_capital, capital, holdings,
                   ledger, report>>
    /\ UNCHANGED <<analyzeVars, dcfVars, bootstrapVars>>

(* run, lines 113-116: analyze returned the card c; the trade is executed.  *)
(* An exception of _execute_trade is outside the try of run and ends it.    *)
Trade(kind, c) ==
    LET eng == [capital |-> capital, holdings |-> holdings, ledger |-> ledger,
                raised |-> FALSE]
        res == _execute_trade(eng, day + 1, prices[day + 1], c.overall_status, c)
    IN  /\ day' = day + 1
        /\ outcome' = Append(outcome, [kind |-> kind, signal |-> Some(c.overall_status)])
        /\ card' = Some(c)
        /\ capital' = res.capital
        /\ holdings' = res.holdings
        /\ ledger' = res.ledger
        /\ pc' = IF res.raised THEN "aborted" ELSE pc
        /\ UNCHANGED <<prices, trading_days, initial_capital, report>>
        /\ UNCHANGED <<info, cache, market_z, adv, runs, first, trace>>
        /\ UNCHANGED <<dcfVars, bootstrapVars>>

(* ticker.info raises inside analyze: the empty card comes back *)
DayFetchFailed ==
    /\ InLoop
    /\ Trade("fetch_failed", _create_empty_card)
    /\ UNCHANGED market_data

(* fewer than 50 rows so far: market_data is {} and analyze takes the cache *)
(* path; the slices only grow, so this precedes every scored day            *)
DayNoMarketData ==
    /\ InLoop
    /\ \A i \in 1..Len(outcome) : outcome[i].kind # "scored"
    /\ \E c \in NoMarketDataCards : Trade("no_market_data", c)
    /\ UNCHANGED market_data

(* the day's slice has 50 rows or more: analyze scores the symbol on the    *)
(* market data built from the slice (close in cents, its 200-day average)   *)
DayScored ==
    /\ InLoop
    /\ \E ma200 \in BacktestMa200Values :
          LET md == _calculate_market_data(prices[day + 1] * 100, ma200, BacktestRsi)
          IN  /\ market_data' = Some(md)
              /\ \E c \in ScoredCardsOn(md) : Trade("scored", c)

(* _generate_report after the last trading day *)
GenerateReport ==
    /\ pc = "day_loop"
    /\ day = trading_days
    /\ LET last_price == prices[Len(prices)]
           portfolio_value == capital + holdings * last_price * PriceScale
       IN  report' = Some([last_price |-> last_price,
                           portfolio_value |-> portfolio_value,
                           initial_val |-> initial_val,
                           \* in hundredths of a percent
                           return_pct |-> (portfolio_value - initial_val)
                                              \div (initial_val \div 10000)])
    /\ pc' = "reported"
    /\ UNCHANGED <<prices, trading_days, initial_capital, day, capital, holdings,
                   ledger, outcome>>
    /\ UNCHANGED <<analyzeVars, dcfVars, bootstrapVars>>

NextBacktest ==
    \/ AnalysisRaises
    \/ AnalysisExits
    \/ DayScored
    \/ DayFetchFailed
    \/ DayNoMarketData
    \/ GenerateReport

SpecBacktest == InitBacktest /\ [][NextBacktest]_vars

----------------------------------------------------------------------------
(* Claims about the backtest *)

RECURSIVE LedgerValue(_, _)
LedgerValue(l, action) ==
    IF l = << >> THEN 0
    ELSE (IF Head(l).Action = action THEN Head(l).Value ELSE 0)
         + LedgerValue(Tail(l), action)

LastAvailablePrice == prices[Len(prices)] * PriceScale

FinalPortfolioValue ==
    IF IsNone(report) THEN capital + holdings * LastAvailablePrice
    ELSE Val(report).portfolio_value

(* C15: whatever days have been simulated, the SELL proceeds in the ledger  *)
(* minus the BUY notional in the ledger plus the holdings valued at the     *)
(* last available price equal the final portfolio value minus the initial   *)
(* capital the engine was constructed with.                                 *)
C15_AccountingIdentity ==
    Len(prices) > 0 =>
        LedgerValue(ledger, "SELL") - LedgerValue(ledger, "BUY")
            + holdings * LastAvailablePrice
        = FinalPortfolioValue - initial_capital

DaySimulated == InLoop /\ day' = day + 1

ScoringRaised == outcome'[day'].kind \in {"raised", "exited"}

(* C16: a simulated day whose scoring call raises executes no trade         *)
(* (capital, holdings and ledger keep their values) and leaves the run in   *)
(* its loop, so that the later trading days are still simulated.            *)
C16_FailedDaySkipped ==
    [][ (DaySimulated /\ ScoringRaised)
            => /\ capital' = capital
               /\ holdings' = holdings
               /\ ledger' = ledger
               /\ pc' = "day_loop" ]_vars

Signal(s) == outcome'[day'].signal = Some(s)

BuyPrice == prices[day'] * 1001
SellPrice == prices[day'] * 999

(* C17: every executed trade decision follows the policy: PASS with cash    *)
(* for at least one share at price x 1.001 buys as many whole shares as the *)
(* cash affords and leaves less cash than one share costs; REJECT with an   *)
(* open position sells all of it at price x 0.999 and leaves holdings 0;    *)
(* WATCHLIST leaves capital, holdings and ledger unchanged.                 *)
C17_ExecutionPolicy ==
    [][ DaySimulated =>
            /\ (Signal("PASS") /\ capital >= BuyPrice)
                   => /\ holdings' = holdings + capital \div BuyPrice
                      /\ capital' = capital - (capital \div BuyPrice) * BuyPrice
                      /\ capital' < BuyPrice
            /\ (Signal("REJECT") /\ holdings > 0)
                   => /\ holdings' = 0
                      /\ capital' = capital + holdings * SellPrice
            /\ Signal("WATCHLIST")
                   => /\ capital' = capital
                      /\ holdings' = holdings
                      /\ ledger' = ledger ]_vars

----------------------------------------------------------------------------
(* The overrides against the Altman classification *)

RescueStep == pc = "quality_rescue" /\ pc' = "trend_filter"

Rescued ==
    /\ RescueStep
    /\ Val(card).overall_status = "REJECT"
    /\ card'[1].overall_status = "WATCHLIST"

(* C21: the quality rescue promotes a REJECT card to WATCHLIST only when    *)
(* the F-Score is at or above the high threshold and the Z-Score is one     *)
(* calculate_altman_z_score classifies Safe (Z > 3.0); a Grey Zone or       *)
(* Distress card is never rescued.                                          *)
C21_RescueOnlyWhenAltmanSafe ==
    [][ Rescued => /\ ~IsNone(CardF) /\ Val(CardF) >= thresholds.min_f_high
                   /\ ~IsNone(CardZ) /\ AltmanStatus(Val(CardZ)) = "Safe" ]_vars

HasBankruptcyRiskFlag ==
    LET flags == Val(card).red_flags
    IN  \E j \in 1..Len(flags) :
            \E z \in {Val(r) : r \in AltmanResults \ {None}} :
                flags[j] = "Bankruptcy Risk (Z-Score " \o Fmt2(z) \o ")"

(* C22: a card analyze returns with a "Bankruptcy Risk" red flag (recorded  *)
(* when the Altman classification is Distress, Z <= 1.8) has overall_status *)
(* REJECT, never PASS or WATCHLIST.                                         *)
C22_BankruptcyFlagMeansReject ==
    (Analyzed /\ HasBankruptcyRiskFlag) => Val(card).overall_status = "REJECT"

----------------------------------------------------------------------------
(* analyze on the market data the pipeline produces and on incomplete       *)
(* fundamentals                                                             *)

Ma200Values == {9000, 11000}
RsiValues == {25, 50, 80}

PipelineMarketDatas ==
    { fetch_and_analyze(10000, m, r) : m \in Ma200Values, r \in RsiValues }
    \cup { _calculate_market_data(10000, m, r) : m \in Ma200Values, r \in RsiValues }

FactorInfos ==
    [ debtToEquity : {None, Some(50)}, currentRatio : {None, Some(200)},
      returnOnEquity : {None, Some(20)}, grossMargins : {None, Some(50)},
      trailingPE : {None, Some(20)}, pegRatio : {None, Some(100)},
      targetMeanPrice : {None, Some(12000)} ]

(* analyze after stage 1: info and market data fetched, the card created *)
InitFactors ==
    /\ pc = "solvency"
    /\ \E inf \in FactorInfos, md \in PipelineMarketDatas :
          /\ info = Some(inf)
          /\ market_data = Some(md)
          /\ card = Some(StockHealthCard(md.price))
    /\ cache = None
    /\ market_z = 0
    /\ adv = None
    /\ runs = 0
    /\ first = None
    /\ trace = << >>
    /\ NoDCF
    /\ NoBacktest
    /\ NoBootstrap

(* AdvancedFinancials(ticker) raises: no DCF and no advanced metrics *)
CheckValuationNoAdv == CheckValuationFrom({None}, {0})

NextFactors ==
    \/ CheckSolvency
    \/ CheckQuality
    \/ NewsSentiment
    \/ CheckValuationNoAdv
    \/ CheckTechnical
    \/ AdvancedMetrics
    \/ DetermineOverallStatus

SpecFactors == InitFactors /\ [][NextFactors]_vars

----------------------------------------------------------------------------
(* Properties of analyze on missing inputs and pipeline market data         *)
(* (SpecFactors)                                                            *)

AllInputsMissing ==
    /\ IsNone(Val(info).debtToEquity)
    /\ IsNone(Val(info).currentRatio)
    /\ IsNone(Val(info).returnOnEquity)
    /\ IsNone(Val(info).grossMargins)
    /\ IsNone(Val(info).pegRatio)
    /\ IsNone(Val(info).trailingPE)
    /\ IsNone(Val(info).targetMeanPrice)
    /\ IsNone(Val(card).technical_setup.rsi)
    /\ IsNone(adv)

(* C23: a symbol whose debt-to-equity, current ratio, ROE, gross margin,    *)
(* PEG, P/E, analyst target and RSI are all null and that has no advanced   *)
(* metrics is never returned as PASS by analyze.                            *)
C23_AllMissingNeverPass ==
    (Analyzed /\ AllInputsMissing) => Val(card).overall_status # "PASS"

HasTag(block, tag) == \E i \in 1..Len(block.tags) : block.tags[i] = tag

(* the tags _check_quality writes for the ROE *)
RoeTags ==
    {"High ROE (>" \o FmtPct(thresholds.min_roe) \o ")", "Negative ROE",
     "Moderate ROE", "No ROE Data"}

(* C24: on the card analyze returns, every null input has a no-data tag in  *)
(* the tags of its check: debt-to-equity, current ratio, ROE, gross margin  *)
(* (a quality tag that is not the ROE's), the PEG and P/E pair, the analyst *)
(* target and the RSI.                                                      *)
C24_EveryMissingInputTagged ==
    Analyzed =>
        LET inf == Val(info)
            c == Val(card)
        IN  /\ IsNone(inf.debtToEquity) => HasTag(c.solvency_check, "No Debt Data")
            /\ IsNone(inf.currentRatio) => HasTag(c.solvency_check, "No Liquidity Data")
            /\ IsNone(inf.returnOnEquity) => HasTag(c.quality_check, "No ROE Data")
            /\ IsNone(inf.grossMargins)
                   => \E i \in 1..Len(c.quality_check.tags) :
                          c.quality_check.tags[i] \notin RoeTags
            /\ (IsNone(inf.pegRatio) /\ IsNone(inf.trailingPE))
                   => HasTag(c.valuation_check, "No Valuation Data")
            /\ IsNone(inf.targetMeanPrice)
                   => HasTag(c.valuation_check, "No Analyst Targets")
            /\ IsNone(c.technical_setup.rsi)
                   => HasTag(c.technical_setup, "No Technical Data")

PipelineRsi == Val(Val(market_data).momentum).rsi

(* C25: when the market data has the pipeline's shape and its RSI is above  *)
(* 70, the technical check of the returned card fails, and a card whose     *)
(* solvency, quality and valuation pass is WATCHLIST, not PASS.             *)
C25_OverboughtFailsTechnical ==
    (Analyzed /\ PipelineRsi > 70) =>
        /\ Val(card).technical_setup.is_passing = Some(FALSE)
        /\ ( /\ Val(card).solvency_check.is_passing = Some(TRUE)
             /\ Val(card).quality_check.is_passing = Some(TRUE)
             /\ Val(card).valuation_check.is_passing = Some(TRUE) )
               => Val(card).overall_status = "WATCHLIST"

----------------------------------------------------------------------------
(* AdvancedFinancials.calculate_altman_z_score (advanced_metrics.py) called *)
(* directly.  Money is in whole currency units, the price in cents, ratios  *)
(* and Z in hundredths; the statements of the model make every division     *)
(* exact.                                                                   *)

(* get_val: the most recent value of a row, 0.0 when the row is absent *)
get_val(row) == IF IsNone(row) THEN 0 ELSE Val(row)

(* the calculation with the market-leverage term over total assets when     *)
(* there are no liabilities                                                 *)
calculate_altman_z_score_LeverageOverAssets(st, price) ==
    IF ~st.has_data THEN [score |-> None, details |-> "No Data"]
    ELSE LET ta  == get_val(st.total_assets)
             tl0 == get_val(st.total_liabilities)
             tl  == IF tl0 = 0 THEN get_val(st.total_debt) ELSE tl0
         IN  IF ta = 0 THEN [score |-> None, details |-> "Total Assets is 0"]
             ELSE LET wc0 == get_val(st.working_capital)
                      wc  == IF wc0 = 0
                             THEN get_val(st.current_assets) - get_val(st.current_liabilities)
                             ELSE wc0
                      re == get_val(st.retained_earnings)
                      ebit == get_val(st.ebit)
                      shares0 == get_val(st.ordinary_shares_number)
                      shares == IF shares0 = 0 THEN get_val(st.share_issued) ELSE shares0
                      market_cap == (price * shares) \div 100
                      sales == get_val(st.total_revenue)
                      A == (100 * wc) \div ta
                      B == (100 * re) \div ta
                      C == (100 * ebit) \div ta
                      D == IF tl = 0 THEN (100 * market_cap) \div ta
                           ELSE (100 * market_cap) \div tl
                      E == (100 * sales) \div ta
                      z_score == (120 * A + 140 * B + 330 * C + 60 * D + 100 * E) \div 100
                  IN  [score |-> Some(z_score), status |-> AltmanStatus(z_score),
                       components |-> [A_Liquidity |-> A, B_AccumulatedEarnings |-> B,
                                       C_EarningsPower |-> C, D_MarketLeverage |-> D,
                                       E_AssetTurnover |-> E]]

calculate_altman_z_score(st, price) ==
    IF ~st.has_data THEN [score |-> None, details |-> "No Data"]
    ELSE LET ta  == get_val(st.total_assets)
             tl0 == get_val(st.total_liabilities)
             \* if tl == 0: tl = get_val(self.bs, 'Total Debt')
             tl  == IF tl0 = 0 THEN get_val(st.total_debt) ELSE tl0
         IN  IF ta = 0 THEN [score |-> None, details |-> "Total Assets is 0"]
             ELSE LET wc0 == get_val(st.working_capital)
                      wc  == IF wc0 = 0
                             THEN get_val(st.current_assets) - get_val(st.current_liabilities)
                             ELSE wc0
                      re == get_val(st.retained_earnings)
                      ebit == get_val(st.ebit)
                      shares0 == get_val(st.ordinary_shares_number)
                      shares == IF shares0 = 0 THEN get_val(st.share_issued) ELSE shares0
                      market_cap == (price * shares) \div 100
                      sales == get_val(st.total_revenue)
                      A == (100 * wc) \div ta
                      B == (100 * re) \div ta
                      C == (100 * ebit) \div ta
                      D == IF tl = 0 THEN 0 ELSE (100 * market_cap) \div tl
                      E == (100 * sales) \div ta
                      z_score == (120 * A + 140 * B + 330 * C + 60 * D + 100 * E) \div 100
                  IN  [score |-> Some(z_score), status |-> AltmanStatus(z_score),
                       components |-> [A_Liquidity |-> A, B_AccumulatedEarnings |-> B,
                                       C_EarningsPower |-> C, D_MarketLeverage |-> D,
                                       E_AssetTurnover |-> E]]

(* balance sheet and income statement rows; None is a row the statement     *)
(* does not have                                                            *)
AltmanStatements ==
    [ has_data : BOOLEAN,
      total_assets : {None, Some(0), Some(1000)},
      total_liabilities : {None, Some(0), Some(500)},
      total_debt : {None, Some(0), Some(200)},
      working_capital : {None, Some(300)},
      current_assets : {Some(400)},
      current_liabilities : {Some(200)},
      retained_earnings : {Some(-100), Some(400)},
      ebit : {Some(100)},
      ordinary_shares_number : {None, Some(0), Some(10)},
      share_issued : {None, Some(10)},
      total_revenue : {Some(800)} ]

AltmanPrices == {0, 5000}

InitAltman ==
    /\ pc = "altman_call"
    /\ NoAnalysis
    /\ NoBacktest
    /\ NoBootstrap
    /\ statements \in {Some(st) : st \in AltmanStatements}
    /\ altman_price \in AltmanPrices
    /\ altman = None
    /\ sentiment_z_score = 0
    /\ dcf = None

CalculateAltman ==
    /\ pc = "altman_call"
    /\ altman' = Some(calculate_altman_z_score(Val(statements), altman_price))
    /\ pc' = "altman_done"
    /\ UNCHANGED <<statements, sentiment_z_score, dcf, altman_price>>
    /\ UNCHANGED <<analyzeVars, engineVars, bootstrapVars>>

NextAltman == CalculateAltman

SpecAltman == InitAltman /\ [][NextAltman]_vars

----------------------------------------------------------------------------
(* Properties of the Altman Z-Score (SpecAltman) *)

AltmanDone == pc = "altman_done"
Sheet == Val(statements)
AltmanResult == Val(altman)

TotalAssetsZero == get_val(Sheet.total_assets) = 0
TotalLiabilitiesZeroOrAbsent == get_val(Sheet.total_liabilities) = 0
TotalDebtZeroOrAbsent == get_val(Sheet.total_debt) = 0

(* the market-leverage term is zero: D is 0 and Z is the sum of the other   *)
(* four terms                                                               *)
LeverageTermZero ==
    LET k == AltmanResult.components
    IN  /\ k.D_MarketLeverage = 0
        /\ AltmanResult.score =
               Some((120 * k.A_Liquidity + 140 * k.B_AccumulatedEarnings
                     + 330 * k.C_EarningsPower + 100 * k.E_AssetTurnover) \div 100)

(* C26 as stated: the score is null when total assets is zero, and whenever *)
(* the total-liabilities row is zero or absent the market-leverage term     *)
(* contributes exactly zero to Z.                                           *)
C26_ZeroLiabilitiesZeroLeverage ==
    (AltmanDone /\ Sheet.has_data) =>
        /\ TotalAssetsZero => IsNone(AltmanResult.score)
        /\ (~TotalAssetsZero /\ TotalLiabilitiesZeroOrAbsent) => LeverageTermZero

(* C26 amended: the score is null when total assets is zero, and whenever   *)
(* the total-liabilities row and the Total Debt row it falls back to are    *)
(* both zero or absent the market-leverage term contributes exactly zero.   *)
C26_ZeroLiabilitiesAndDebtZeroLeverage ==
    (AltmanDone /\ Sheet.has_data) =>
        /\ TotalAssetsZero => IsNone(AltmanResult.score)
        /\ (~TotalAssetsZero /\ TotalLiabilitiesZeroOrAbsent /\ TotalDebtZeroOrAbsent)
               => LeverageTermZero

(* a company with assets, shares and a price but neither liabilities nor    *)
(* debt, scored                                                             *)
C26_Witness ==
    /\ AltmanDone /\ Sheet.has_data
    /\ ~TotalAssetsZero
    /\ TotalLiabilitiesZeroOrAbsent /\ TotalDebtZeroOrAbsent
    /\ Sheet.ordinary_shares_number = Some(10)
    /\ altman_price > 0
    /\ ~IsNone(AltmanResult.score)
    /\ LeverageTermZero

----------------------------------------------------------------------------
(* Properties of the backtest ledger, report and trend filter (SpecBacktest) *)

(* C27 as stated: the position is never added to: in every ledger BUY and   *)
(* SELL entries strictly alternate, starting with BUY.                      *)
C27_BuySellAlternate ==
    \A i \in 1..Len(ledger) :
        ledger[i].Action = (IF i % 2 = 1 THEN "BUY" ELSE "SELL")

(* C27 amended: in every ledger the first entry is a BUY and every SELL     *)
(* directly follows a BUY, so between any two SELL entries there is a BUY;  *)
(* a BUY may follow a BUY (a later PASS day adds to the position when the   *)
(* cash left exceeds the price of one share).                               *)
C27_SellFollowsBuy ==
    \A i \in 1..Len(ledger) :
        ledger[i].Action = "SELL" => (i > 1 /\ ledger[i - 1].Action = "BUY")

(* a position bought, added to on a later PASS day, then sold *)
C27_Witness ==
    /\ Len(ledger) = 3
    /\ ledger[1].Action = "BUY"
    /\ ledger[2].Action = "BUY"
    /\ ledger[3].Action = "SELL"
    /\ ledger[3].Shares = ledger[1].Shares + ledger[2].Shares
    /\ holdings = 0

LastPriceInRange == prices[trading_days] * PriceScale

(* C28: the total return reported at the end of a backtest is (final        *)
(* portfolio value - initial capital) / initial capital, with the initial   *)
(* capital given to the constructor and the final holdings valued at the    *)
(* last price within the date range (returns in hundredths of a percent).   *)
C28_ReportedReturn ==
    pc = "reported" =>
        LET final_value == capital + holdings * LastPriceInRange
        IN  /\ Val(report).portfolio_value = final_value
            /\ Val(report).return_pct
                   = ((final_value - initial_capital) * 10000) \div initial_capital

ScoredBelowMa200 ==
    /\ DaySimulated
    /\ outcome'[day'].kind = "scored"
    /\ Val(market_data'[1].trend).is_uptrend = Some(FALSE)

(* C29: on a simulated day whose close is below its 200-day moving average  *)
(* the card analyze returns is not PASS (a PASS is downgraded to WATCHLIST) *)
(* and the backtest buys nothing.                                           *)
C29_NoBuyBelowMa200 ==
    [][ ScoredBelowMa200 => /\ outcome'[day'].signal # Some("PASS")
                            /\ holdings' <= holdings
                            /\ ledger' = ledger \/ ledger'[Len(ledger')].Action # "BUY"
      ]_vars

----------------------------------------------------------------------------
(* prediction_engine._run_regime_bootstrap.  A daily return is identified   *)
(* by its position in the return history; spy_regime gives, for each of     *)
(* those days, how SPY stood against its 200-day average.  The statistics   *)
(* computed from the simulated paths are left out.                          *)

MinPoolSize == 50

(* (spy['Close'] > spy_ma200).reindex(returns.index).fillna(True): a day    *)
(* whose average is still NaN compares False, a day SPY has no row for is   *)
(* filled with True                                                         *)
spy_bullish(regime) == regime \in {"above", "missing"}

ReturnDays(h) == 1..Len(h)

(* returns[spy_bullish] and returns[~spy_bullish] *)
BullSample(h) == { i \in ReturnDays(h) : spy_bullish(h[i]) }
BearSample(h) == { i \in ReturnDays(h) : ~spy_bullish(h[i]) }

(* the pool selection with the fallback taken at 50 observations too *)
sample_pool_FallbackAtThreshold(h, bullish) ==
    LET pool == IF bullish THEN BullSample(h) ELSE BearSample(h)
    IN  IF Cardinality(pool) <= MinPoolSize THEN ReturnDays(h) ELSE pool

sample_pool(h, bullish) ==
    LET pool == IF bullish THEN BullSample(h) ELSE BearSample(h)
    IN  IF Cardinality(pool) < MinPoolSize THEN ReturnDays(h) ELSE pool

(* return histories: days before SPY has a 200-day average, then days below *)
(* it, days above it, and days SPY has no row for                           *)
NoAverageDays == {0, 1}
BelowDays == {0, 48, 49, 50}
AboveDays == {0, 49, 50}
MissingDays == {0, 1}

RegimeHistory(n, b, a, m) ==
    [ i \in 1..(n + b + a + m) |->
          IF i <= n THEN "no_average"
          ELSE IF i <= n + b THEN "below"
          ELSE IF i <= n + b + a THEN "above"
          ELSE "missing" ]

InitBootstrap ==
    /\ pc = "bootstrap_call"
    /\ NoAnalysis
    /\ NoDCF
    /\ NoBacktest
    /\ \E n \in NoAverageDays, b \in BelowDays, a \in AboveDays, m \in MissingDays :
           spy_regime = RegimeHistory(n, b, a, m)
    /\ is_current_bullish \in BOOLEAN
    /\ bootstrap = None

(* the pool is selected, np.random.choice draws the cells of                *)
(* simulated_paths from it (cell is any one of them) and the result is      *)
(* returned                                                                 *)
RunRegimeBootstrap ==
    /\ pc = "bootstrap_call"
    /\ Len(spy_regime) > 0
    /\ LET pool == sample_pool(spy_regime, is_current_bullish)
       IN  \E cell \in pool :
               bootstrap' = Some([sample_pool |-> pool, cell |-> cell,
                                  sample_size |-> Cardinality(pool)])
    /\ pc' = "bootstrap_done"
    /\ UNCHANGED <<spy_regime, is_current_bullish>>
    /\ UNCHANGED <<analyzeVars, dcfVars, engineVars>>

(* an empty return history: returns.index[0] raises IndexError *)
RunRegimeBootstrapRaises ==
    /\ pc = "bootstrap_call"
    /\ Len(spy_regime) = 0
    /\ pc' = "bootstrap_raised"
    /\ UNCHANGED bootstrapVars
    /\ UNCHANGED <<analyzeVars, dcfVars, engineVars>>

NextBootstrap ==
    \/ RunRegimeBootstrap
    \/ RunRegimeBootstrapRaises

SpecBootstrap == InitBootstrap /\ [][NextBootstrap]_vars

----------------------------------------------------------------------------
(* Properties of the regime bootstrap (SpecBootstrap) *)

BootstrapDone == pc = "bootstrap_done"

MatchingPool ==
    IF is_current_bullish THEN BullSample(spy_regime) ELSE BearSample(spy_regime)

====
